---- MODULE Spec2Model ----
(***************************************************************************)
(* Notification delivery pipeline of the Werewolf backend:                 *)
(*   - UserConnectionManager (services/notification_connection_manager.py) *)
(*   - RedisSubscriber.run (services/redis_pubsub.py)                      *)
(*   - /ws/notifications endpoint and the lazy subscription guard          *)
(*     (api/endpoints/websocket_notifications.py)                          *)
(***************************************************************************)
EXTENDS Integers, Sequences, FiniteSets, TLC

\* ------------------------------------------------------------------------
\* Bounds and finite universes
\* ------------------------------------------------------------------------
MaxMsgs == 2

\* datetime.utcnow() takes the values 1..MaxClock
MaxClock == 3

\* a broadcast has at most MaxTargets targets
MaxTargets == 3

\* the attempt budget of an outbox entry (`max`)
MaxAttempts == 2

\* the process crashes at most MaxCrashes times
MaxCrashes == 2

\* time.time() takes the values 1..MaxNow, in ticks
MaxNow == 6

\* an identifier is locked out at most MaxLockouts times
MaxLockouts == 3

Users == {"u1", "u2"}
Sockets == {"w1", "w2"}
Tasks == {"t1", "t2"}

Free == "free"
NoTask == "none"
NoSocket == "nows"

\* ------------------------------------------------------------------------
\* JSON values as seen by the bus handler (Python objects after json.loads)
\* ------------------------------------------------------------------------
JAbsent == [k |-> "absent", v |-> ""]
JS(s) == [k |-> "str", v |-> s]
JInt(s) == [k |-> "int", v |-> s]
JObj == [k |-> "dict", v |-> "{..}"]
JEmptyObj == [k |-> "dict", v |-> "{}"]
JList == [k |-> "list", v |-> "[..]"]

\* Python truthiness, as used by `x or ""`
Truthy(x) ==
    CASE x.k = "absent" -> FALSE
      [] x.k = "str" -> x.v # ""
      [] x.k = "int" -> x.v # "0"
      [] x.k = "dict" -> x.v # "{}"
      [] x.k = "list" -> x.v # "[]"
      [] OTHER -> FALSE

\* str(x or "")
StrOrEmpty(x) == IF Truthy(x) THEN x.v ELSE ""

IsDict(x) == x.k = "dict"

\* Raw pub/sub messages returned by pubsub.get_message(...)
\*   kind "nonmessage": message["type"] != "message"
\*   kind "nodata":     message["data"] is None
\*   kind "badutf8":    bytes that raw.decode("utf-8") rejects
\*   kind "notjson":    text that json.loads rejects
\*   kind "jsonlist":   valid JSON that is not an object
\*   kind "dict":       a JSON object with the three routed fields
Raw(kind, uid, mt, data) == [kind |-> kind, user_id |-> uid, message_type |-> mt, data |-> data]
NoMessage == Raw("none", JAbsent, JAbsent, JAbsent)
Dict(uid, mt, data) == Raw("dict", uid, mt, data)
RawMessages ==
    {Raw(kd, JAbsent, JAbsent, JAbsent) : kd \in {"nonmessage", "nodata", "badutf8", "notjson", "jsonlist"}}
    \cup {Dict(JS("u1"), JS("notification"), JObj),
          Dict(JS("u1"), JS("notification"), JEmptyObj),
          Dict(JInt("7"), JS("notification"), JObj),
          Dict(JAbsent, JS("notification"), JObj),
          Dict(JS(""), JS("notification"), JObj),
          Dict(JInt("0"), JS("notification"), JObj),
          Dict(JS("u1"), JAbsent, JObj),
          Dict(JS("u1"), JS(""), JObj),
          Dict(JS("u1"), JS("notification"), JAbsent),
          Dict(JS("u1"), JS("notification"), JList)}

\* ------------------------------------------------------------------------
\* The registry dictionary: defaultdict(set) keyed by user id
\* ------------------------------------------------------------------------
EmptyDict == [k \in {} |-> {}]

\* Mutant: the lookup returns the handles of every user
DictGetAnyUser(d, u) == UNION {d[k] : k \in DOMAIN d}

\* self._connections.get(user_id, set())
DictGet(d, u) == IF u \in DOMAIN d THEN d[u] ELSE {}

\* Mutant: the lookup indexes the defaultdict, which inserts an empty set
DictAfterIndexing(d, u) ==
    [k \in DOMAIN d \cup {u} |-> DictGet(d, u)]

\* the dictionary after self._connections.get(user_id, set()): get never inserts
DictAfterLookup(d, u) == d

\* self._connections[user_id].add(websocket)
DictAdd(d, u, w) ==
    [k \in DOMAIN d \cup {u} |-> IF k = u THEN DictGet(d, u) \cup {w} ELSE d[k]]

\* Mutant: the entry is dropped as soon as any handle is discarded
DictDiscardDropsEntry(d, u, w) ==
    [k \in DOMAIN d \ {u} |-> d[k]]

\* Mutant: the handle is not removed
DictDiscardNoop(d, u, w) == d

\* Mutant: the emptied entry is kept
DictDiscardKeepsEmpty(d, u, w) ==
    IF u \in DOMAIN d THEN [d EXCEPT ![u] = @ \ {w}] ELSE d

\* body of disconnect's critical section
DictDiscard(d, u, w) ==
    IF u \in DOMAIN d
    THEN IF d[u] \ {w} = {}
         THEN [k \in DOMAIN d \ {u} |-> d[k]]
         ELSE [d EXCEPT ![u] = @ \ {w}]
    ELSE d

\* get_connection_count
get_connection_count(d, u) == Cardinality(DictGet(d, u))

\* The upgrade request as the handler reads it: the Origin header ("absent",
\* "allowed" or "foreign"), the user_access_token cookie and the token of the
\* Sec-WebSocket-Protocol header ("" = none, "good" = verifies, "bad" = does
\* not), the user_id of the token payload, and the users row it names.
Request(origin, cookie, subprotocol, uid, userFound, userActive) ==
    [origin |-> origin, cookie |-> cookie, subprotocol |-> subprotocol,
     uid |-> uid, userFound |-> userFound, userActive |-> userActive]

NoRequest == Request("absent", "", "", "", FALSE, FALSE)

\* Requests the handler is run on: two that pass every check (one per token
\* source) and one for each check that can fail
Requests ==
    { Request("allowed", "good", "", "u1", TRUE, TRUE),
      Request("absent", "", "good", "u2", TRUE, TRUE),
      Request("foreign", "good", "", "u1", TRUE, TRUE),
      Request("allowed", "", "", "", FALSE, FALSE),
      Request("allowed", "bad", "good", "u1", TRUE, TRUE),
      Request("allowed", "good", "", "", FALSE, FALSE),
      Request("allowed", "good", "", "u1", FALSE, FALSE),
      Request("allowed", "", "good", "u2", TRUE, FALSE) }

\* _validate_origin, lines 54-91: no Origin header is allowed
validate_origin(req) == req.origin # "foreign"

\* lines 174-180: cookie first, then Sec-WebSocket-Protocol
AuthToken(req) == IF req.cookie # "" THEN req.cookie ELSE req.subprotocol

\* Mutant: a disabled user is let through
RejectReasonIgnoresDisabled(req) ==
    IF ~validate_origin(req) THEN "Invalid origin"
    ELSE IF AuthToken(req) = "" THEN "Authentication required"
    ELSE IF AuthToken(req) # "good" THEN "Authentication failed"
    ELSE IF req.uid = "" THEN "User authentication required"
    ELSE IF ~req.userFound THEN "User not found"
    ELSE ""

\* lines 168-207: the reason passed to _reject by the first check that fails,
\* "" when every check passes
RejectReason(req) ==
    IF ~validate_origin(req) THEN "Invalid origin"
    ELSE IF AuthToken(req) = "" THEN "Authentication required"
    ELSE IF AuthToken(req) # "good" THEN "Authentication failed"
    ELSE IF req.uid = "" THEN "User authentication required"
    ELSE IF ~req.userFound THEN "User not found"
    ELSE IF ~req.userActive THEN "User disabled"
    ELSE ""

\* the rejections made inside the try block (lines 202-207)
LateReasons == {"User not found", "User disabled"}

VARIABLES
    connections,   \* UserConnectionManager._connections
    lock,          \* UserConnectionManager._lock: Free or the holder
    wsState,       \* per handle: "connecting", "open", "closed"
    closeCode,     \* per handle: code of the last close() called on it (0 = none)
    closeReason,   \* per handle: reason of the last close() called on it
    frames,        \* per handle: frames sent on it, in order: its `connected` frame
                   \* and the frames delivered through send_to_user
    hpc,           \* per handle: position of its notifications_websocket handler
    huser,         \* per handle: user_id resolved from the token
    redisTask,     \* module global _redis_task
    redisConfigured, \* the redis package is installed and REDIS_URL is set
    redisUrlValid, \* Redis.from_url accepts REDIS_URL
    tpc,           \* per subscriber task: position in RedisSubscriber.run
    tmsg,          \* per subscriber task: local `message`
    tevt,          \* per subscriber task: sequence number of `message`
    tsnap,         \* per subscriber task: `sockets` snapshot of send_to_user
    ttodo,         \* per subscriber task: handles of the snapshot not yet iterated
    tcur,          \* per subscriber task: loop variable `ws`
    tfailed,       \* per subscriber task: handles whose send raised in this call
    tmalformed,          \* per subscriber task: this loop has dropped a malformed message
    polled,        \* number of bus messages received so far
    registered,    \* history: pairs <<user, handle>> registered and not unregistered
    ret,           \* result of the last registry call made by the harness
    hreq,          \* per handle: the upgrade request its handler examined
    pubsub,        \* per subscriber task: state of the local `pubsub` handle
    stopEvent,     \* per subscriber task: RedisSubscriber._stop_event is set
    notifs,        \* rows of the notifications table, by id
    clock,         \* value datetime.utcnow() returns
    rres,          \* response of the last read-state endpoint call
    bc,            \* rows of the notification_broadcasts table, by id
    brows,         \* rows of the notifications table that carry a broadcast_id
    creq,          \* per client: its create-broadcast request in flight
    cres,          \* per client: the broadcast id its last create request returned
    wk,            \* per fan-out worker: the target it is processing
    onotifs,       \* committed Notification rows written by the Outbox Writer
    outbox,        \* committed rows of the notification_outbox table, by id
    tx,            \* the Outbox Writer's open transaction
    proc,          \* the Outbox Processor: its position and the entry in hand
    crashes,       \* number of process crashes so far
    published,     \* per entry: number of publish calls made for it
    records,       \* LoginRateLimiter._records
    lockout_counts, \* LoginRateLimiter._lockout_counts
    time,          \* value time.time() returns, in ticks
    lres,          \* result of the last call made on the limiter
    finished,      \* per broadcast: number of targets whose processing has finished
    TRUSTED_PROXIES,  \* settings.TRUSTED_PROXIES
    trusted_networks, \* module global _trusted_networks of client_ip
    ipres          \* the last get_client_ip call: its request and its result

vars == <<connections, lock, wsState, closeCode, closeReason, frames, hpc, huser,
          redisTask, redisConfigured, redisUrlValid, tpc, tmsg, tevt, tsnap, ttodo, tcur,
          tfailed, tmalformed, polled, registered, ret,
          hreq, pubsub, stopEvent, notifs, clock, rres, bc, brows, creq, cres,
          wk, finished, onotifs, outbox, tx, proc, crashes, published,
          records, lockout_counts, time, lres,
          TRUSTED_PROXIES, trusted_networks, ipres>>

regVars == <<connections, lock, registered>>
sockVars == <<wsState, closeCode, closeReason>>
handlerVars == <<hpc, huser>>
taskVars == <<tpc, tmsg, tevt, tsnap, ttodo, tcur, tfailed, tmalformed>>
subVars == <<pubsub, stopEvent>>
readVars == <<notifs, clock, rres>>
bcVars == <<bc, brows>>
createVars == <<creq, cres>>
workerVars == <<wk, finished>>
outboxVars == <<onotifs, outbox, tx, proc, crashes, published>>
limitVars == <<records, lockout_counts, time, lres>>
ipVars == <<TRUSTED_PROXIES, trusted_networks, ipres>>
moreVars == <<createVars, workerVars, outboxVars, limitVars, ipVars, redisUrlValid>>
extVars == <<readVars, bcVars, moreVars>>

\* the tables before any row is written
NoRows == <<>>
NoBroadcasts == <<>>

\* read_at IS NULL
Null == 0

\* no read-state endpoint has answered yet
NoResponse == [op |-> "none", user |-> "", ids |-> {}, status |-> 0, updated |-> 0,
               read_at |-> Null]

NoRet == [op |-> "none", user |-> "", ws |-> NoSocket, before |-> 0, value |-> 0]

\* the delivery pipeline after start-up: no connection, no subscriber task
InitDelivery ==
    /\ connections = EmptyDict
    /\ lock = Free
    /\ wsState = [w \in Sockets |-> "connecting"]
    /\ closeCode = [w \in Sockets |-> 0]
    /\ closeReason = [w \in Sockets |-> ""]
    /\ frames = [w \in Sockets |-> <<>>]
    /\ hpc = [w \in Sockets |-> "start"]
    /\ huser = [w \in Sockets |-> ""]
    /\ redisTask = NoTask
    /\ redisConfigured \in BOOLEAN
    /\ redisUrlValid \in {valid \in BOOLEAN : valid => redisConfigured}
    /\ tpc = [t \in Tasks |-> "unborn"]
    /\ tmsg = [t \in Tasks |-> NoMessage]
    /\ tevt = [t \in Tasks |-> 0]
    /\ tsnap = [t \in Tasks |-> {}]
    /\ ttodo = [t \in Tasks |-> {}]
    /\ tcur = [t \in Tasks |-> NoSocket]
    /\ tfailed = [t \in Tasks |-> {}]
    /\ tmalformed = [t \in Tasks |-> FALSE]
    /\ polled = 0
    /\ registered = {}
    /\ ret = NoRet
    /\ hreq = [w \in Sockets |-> NoRequest]
    /\ pubsub = [t \in Tasks |-> "none"]
    /\ stopEvent = [t \in Tasks |-> FALSE]

\* the callers of the create-broadcast operation and the fan-out workers
Clients == {"c1", "c2"}
Workers == {"wk1", "wk2"}

BroadcastIds == {"b1", "b2"}

\* no create request in flight, no response received yet
NoCreate == [pc |-> "idle", key |-> "", body |-> ""]
NoBroadcast == ""

\* a worker that is processing no target
Idle == [pc |-> "idle", b |-> NoBroadcast,
         seen |-> [processed |-> 0, sent_count |-> 0, failed_count |-> 0]]

\* the durable notifications the Outbox Writer is given, oldest first
OutboxIds == {1, 2}

\* no transaction open; the Processor between two entries
NoTx == [pc |-> "none", n |-> 0]
ProcIdle == [pc |-> "idle", e |-> 0]
ProcDown == [pc |-> "down", e |-> 0]

\* retry_after_seconds is None
NoRetry == -1

\* no call has been made on the limiter yet
NoCall == [op |-> "none", id |-> "", allowed |-> TRUE, retry_after |-> NoRetry]

\* _trusted_networks before the first parse
NotParsed == [parsed |-> FALSE, networks |-> {}]

\* no get_client_ip call has been made yet
NoIpCall == [peer |-> "", xff |-> <<>>, result |-> ""]

\* nothing fanned out, requested or being processed yet
InitMore ==
    /\ trusted_networks = NotParsed
    /\ ipres = NoIpCall
    /\ records = <<>>
    /\ lockout_counts = <<>>
    /\ time = 1
    /\ lres = NoCall
    /\ onotifs = {}
    /\ outbox = <<>>
    /\ tx = NoTx
    /\ proc = ProcIdle
    /\ crashes = 0
    /\ published = [e \in OutboxIds |-> 0]
    /\ brows = {}
    /\ creq = [c \in Clients |-> NoCreate]
    /\ cres = [c \in Clients |-> NoBroadcast]
    /\ wk = [w \in Workers |-> Idle]
    /\ finished = [b \in BroadcastIds |-> 0]

\* no notification and no broadcast has been created yet
Init ==
    /\ InitDelivery
    /\ notifs = NoRows
    /\ clock = 1
    /\ rres = NoResponse
    /\ bc = NoBroadcasts
    /\ InitMore
    /\ TRUSTED_PROXIES = {}

\* the same, in a process that has no bus client configured
InitLocal == Init /\ ~redisConfigured

\* ------------------------------------------------------------------------
\* Registry calls made one after another by a caller (sequences of calls)
\* ------------------------------------------------------------------------

\* connect(user_id, websocket): accept, then add under the lock
CallConnect(u, w) ==
    /\ lock = Free
    /\ \E accepted \in BOOLEAN :
         IF accepted
         THEN /\ connections' = DictAfterLookup(DictAdd(connections, u, w), u)
              /\ registered' = registered \cup {<<u, w>>}
              /\ wsState' = [wsState EXCEPT ![w] = "open"]
              /\ ret' = [op |-> "connect", user |-> u, ws |-> w,
                         before |-> get_connection_count(connections, u),
                         value |-> get_connection_count(connections', u)]
         ELSE /\ UNCHANGED <<connections, registered, wsState>>
              /\ ret' = [op |-> "connect_raised", user |-> u, ws |-> w,
                         before |-> get_connection_count(connections, u),
                         value |-> get_connection_count(connections, u)]
    /\ UNCHANGED <<lock, closeCode, closeReason, frames, handlerVars, redisTask,
                   redisConfigured, taskVars, polled, hreq, subVars, extVars>>

\* disconnect(user_id, websocket)
CallDisconnect(u, w) ==
    /\ lock = Free
    /\ connections' = DictAfterLookup(DictDiscard(connections, u, w), u)
    /\ registered' = registered \ {<<u, w>>}
    /\ ret' = [op |-> "disconnect", user |-> u, ws |-> w,
               before |-> get_connection_count(connections, u),
               value |-> get_connection_count(connections', u)]
    /\ UNCHANGED <<lock, sockVars, frames, handlerVars, redisTask,
                   redisConfigured, taskVars, polled, hreq, subVars, extVars>>

\* get_connection_count(user_id)
CallCount(u) ==
    /\ ret' = [op |-> "count", user |-> u, ws |-> NoSocket,
               before |-> get_connection_count(connections, u),
               value |-> get_connection_count(connections, u)]
    /\ connections' = DictAfterLookup(connections, u)
    /\ UNCHANGED <<lock, registered, sockVars, frames, handlerVars, redisTask,
                   redisConfigured, taskVars, polled, hreq, subVars, extVars>>

\* ------------------------------------------------------------------------
\* /ws/notifications handler, one per incoming socket
\* ------------------------------------------------------------------------

\* Origin check, token extraction and verification, user lookup (lines 160-207).
\* A failed check runs _reject: accept (errors swallowed), close(code=1008,
\* reason). The first four checks return before the try block; the user
\* lookup is inside it, so its rejections run the finally clause.
Handshake(w) ==
    /\ hpc[w] = "start"
    /\ \E req \in Requests :
         LET reason == RejectReason(req)
         IN  /\ hreq' = [hreq EXCEPT ![w] = req]
             /\ huser' = [huser EXCEPT ![w] =
                            IF reason = "" \/ reason \in LateReasons THEN req.uid ELSE ""]
             /\ IF reason # ""
                THEN /\ wsState' = [wsState EXCEPT ![w] = "closed"]
                     /\ closeCode' = [closeCode EXCEPT ![w] = 1008]
                     /\ closeReason' = [closeReason EXCEPT ![w] = reason]
                     /\ hpc' = [hpc EXCEPT ![w] =
                                  IF reason \in LateReasons THEN "fin_cs" ELSE "done"]
                ELSE /\ UNCHANGED <<wsState, closeCode, closeReason>>
                     /\ hpc' = [hpc EXCEPT ![w] = "accept"]
    /\ UNCHANGED <<regVars, frames, redisTask, redisConfigured, taskVars, polled, ret,
                   subVars, extVars>>

\* connect, line 35: await websocket.accept(subprotocol=...)
ConnectAccept(w) ==
    /\ hpc[w] = "accept"
    /\ \E accepted \in BOOLEAN :
         IF accepted
         THEN /\ wsState' = [wsState EXCEPT ![w] = "open"]
              /\ hpc' = [hpc EXCEPT ![w] = "connect_cs"]
         ELSE /\ UNCHANGED wsState
              /\ hpc' = [hpc EXCEPT ![w] = "fin_cs"]
    /\ UNCHANGED <<regVars, closeCode, closeReason, frames, huser, redisTask, redisConfigured,
                   taskVars, polled, ret, hreq, subVars, extVars>>

\* connect, lines 36-38: the critical section and the logged count. The section
\* has no suspension point, so acquiring the free lock, the body and the
\* release are one step
ConnectCS(w) ==
    /\ hpc[w] = "connect_cs"
    /\ lock = Free
    /\ connections' = DictAfterLookup(DictAdd(connections, huser[w], w), huser[w])
    /\ registered' = registered \cup {<<huser[w], w>>}
    /\ lock' = Free
    /\ hpc' = [hpc EXCEPT ![w] = "ensure"]
    /\ UNCHANGED <<sockVars, frames, huser, redisTask, redisConfigured,
                   taskVars, polled, ret, hreq, subVars, extVars>>

\* Mutant: the guard of line 114 is missing
SubscriptionActiveNoGuard == FALSE

\* line 114: _redis_task and not _redis_task.done()
SubscriptionActive == redisTask # NoTask /\ tpc[redisTask] # "done"

\* Neither _ensure_redis_subscription_started (line 116) nor the handler
\* (line 217) catches what create_redis_client raises: it reaches the
\* handler's `except Exception` (line 238)
AfterCreateRaised == "fin_cs"

\* _ensure_redis_subscription_started (lines 106-146). create_redis_client
\* has no suspension point, so the check and create_task are one step.
\* Redis.from_url (redis_pubsub.py line 118) raises ValueError on a URL it
\* cannot parse.
EnsureStarted(w) ==
    /\ hpc[w] = "ensure"
    /\ IF SubscriptionActive \/ ~redisConfigured
       THEN /\ UNCHANGED <<redisTask, tpc>>
            /\ hpc' = [hpc EXCEPT ![w] = "send_connected"]
       ELSE IF ~redisUrlValid
       THEN /\ UNCHANGED <<redisTask, tpc>>
            /\ hpc' = [hpc EXCEPT ![w] = AfterCreateRaised]
       ELSE /\ \E t \in Tasks : tpc[t] = "unborn"
            /\ LET t == CHOOSE x \in Tasks : tpc[x] = "unborn"
               IN  /\ redisTask' = t
                   /\ tpc' = [tpc EXCEPT ![t] = "created"]
            /\ hpc' = [hpc EXCEPT ![w] = "send_connected"]
    /\ UNCHANGED <<regVars, sockVars, frames, huser, redisConfigured,
                   tmsg, tevt, tsnap, ttodo, tcur, tfailed, tmalformed, polled, ret, hreq, subVars, extVars>>

\* Mutant: only WebSocketDisconnect reaches the cleanup
AfterExitOnDisconnectOnly(outcome) == IF outcome = "disconnect" THEN "fin_cs" ELSE "done"

\* lines 236-245: WebSocketDisconnect and Exception are caught, CancelledError
\* is not, and the finally clause runs in each case
AfterExit(outcome) == "fin_cs"

\* lines 223-228: the frame the handler sends first; it belongs to no bus
\* message (their numbers start at 1, and 0 is the number of no message)
ConnectedFrame == [type |-> "connected", evt |-> -1]

\* lines 220-228: unread count and the initial `connected` frame
SendConnected(w) ==
    /\ hpc[w] = "send_connected"
    /\ \E ok \in BOOLEAN :
         /\ ok => wsState[w] = "open"
         /\ hpc' = [hpc EXCEPT ![w] = IF ok THEN "recv" ELSE AfterExit("error")]
         /\ frames' = [frames EXCEPT ![w] = IF ok THEN Append(@, ConnectedFrame) ELSE @]
    /\ UNCHANGED <<regVars, sockVars, huser, redisTask, redisConfigured,
                   taskVars, polled, ret, hreq, subVars, extVars>>

\* keep-alive loop (lines 231-234) and the ways out of it (236-240): the
\* client disconnects, receive_text or the pong send raises, the handler task
\* is cancelled
Receive(w) ==
    /\ hpc[w] = "recv"
    /\ \E outcome \in {"ping_pong", "ping_send_raised", "text", "disconnect", "error",
                        "cancelled"} :
         /\ outcome \in {"ping_pong", "ping_send_raised", "text"} => wsState[w] = "open"
         /\ hpc' = [hpc EXCEPT ![w] =
                      IF outcome \in {"ping_pong", "text"} THEN "recv"
                      ELSE AfterExit(outcome)]
         /\ wsState' = [wsState EXCEPT ![w] =
                      IF outcome = "disconnect" THEN "closed" ELSE @]
    /\ UNCHANGED <<regVars, closeCode, closeReason, frames, huser, redisTask, redisConfigured,
                   taskVars, polled, ret, hreq, subVars, extVars>>

\* finally: disconnect (lines 42-47: critical section, logged count), db.close()
FinallyCS(w) ==
    /\ hpc[w] = "fin_cs"
    /\ lock = Free
    /\ connections' = DictAfterLookup(DictDiscard(connections, huser[w], w), huser[w])
    /\ registered' = registered \ {<<huser[w], w>>}
    /\ lock' = Free
    /\ hpc' = [hpc EXCEPT ![w] = "done"]
    /\ UNCHANGED <<sockVars, frames, huser, redisTask, redisConfigured,
                   taskVars, polled, ret, hreq, subVars, extVars>>

\* ------------------------------------------------------------------------
\* RedisSubscriber.run and the bus handler
\* ------------------------------------------------------------------------

\* run, lines 87-90: decode and json.loads raise on undecodable or non-JSON
\* data; the except clause of line 93 catches it
DecodeRaises(raw) == raw.kind \in {"badutf8", "notjson"}

\* run, lines 80-92: the message reaches `await handler(payload)`
ReachesHandler(raw) ==
    /\ raw.kind # "nonmessage"
    /\ raw.kind # "nodata"
    /\ ~DecodeRaises(raw)
    /\ raw.kind = "dict"

\* handler, lines 136-137
HandlerUserId(raw) == StrOrEmpty(raw.user_id)
HandlerMessageType(raw) == StrOrEmpty(raw.message_type)

\* Mutant: the handler checks only the user id
HandlerAcceptsUserOnly(raw) == HandlerUserId(raw) # ""

\* handler, line 139 negated: the message is passed to send_to_user
HandlerAccepts(raw) ==
    ~(HandlerUserId(raw) = "" \/ HandlerMessageType(raw) = "" \/ ~IsDict(raw.data))

\* the message is forwarded to the registry
Forwarded(raw) == ReachesHandler(raw) /\ HandlerAccepts(raw)

\* Mutant: a decode failure propagates out of the loop
AfterDecodeFailurePropagates == "finally"

\* run, lines 93-94: position of the loop after a caught decode failure
AfterDecodeFailure == "loop"

\* run, line 74: `while not self._stop_event.is_set()`, evaluated each time
\* the loop is entered or continued
LoopCheck(t) == IF stopEvent[t] THEN "finally" ELSE "loop"

\* run, lines 69-74: pubsub(), subscribe(topic) and the first loop check. An
\* error of subscribe leaves run before the try block: the handle stays open.
Subscribe(t) ==
    /\ tpc[t] = "created"
    /\ \E ok \in BOOLEAN :
         /\ tpc' = [tpc EXCEPT ![t] = IF ok THEN LoopCheck(t) ELSE "done"]
         /\ pubsub' = [pubsub EXCEPT ![t] = IF ok THEN "subscribed" ELSE "open"]
    /\ UNCHANGED <<regVars, sockVars, frames, handlerVars, redisTask, redisConfigured,
                   tmsg, tevt, tsnap, ttodo, tcur, tfailed, tmalformed, polled, ret,
                   hreq, stopEvent, extVars>>

\* run, line 75: get_message raises (transport failure); the finally clause runs
PollRaises(t) ==
    /\ tpc[t] = "loop"
    /\ tpc' = [tpc EXCEPT ![t] = "finally"]
    /\ UNCHANGED <<regVars, sockVars, frames, handlerVars, redisTask, redisConfigured,
                   tmsg, tevt, tsnap, ttodo, tcur, tfailed, tmalformed, polled, ret, hreq, subVars, extVars>>

\* run, lines 96-100: unsubscribe and close share one try block, so close is
\* reached only when unsubscribe returned; the handle is closed after close()
\* was called on it
PubsubAfterFinally(unsubscribed) == IF unsubscribed THEN "closed" ELSE "subscribed"

\* run, lines 95-100: unsubscribe, close, errors swallowed; the task is done
RunFinally(t) ==
    /\ tpc[t] = "finally"
    /\ tpc' = [tpc EXCEPT ![t] = "done"]
    /\ \E unsubscribed \in BOOLEAN :
         pubsub' = [pubsub EXCEPT ![t] = PubsubAfterFinally(unsubscribed)]
    /\ tmsg' = [tmsg EXCEPT ![t] = NoMessage]
    /\ tevt' = [tevt EXCEPT ![t] = 0]
    /\ tmalformed' = [tmalformed EXCEPT ![t] = FALSE]
    /\ UNCHANGED <<regVars, sockVars, frames, handlerVars, redisTask, redisConfigured,
                   tsnap, ttodo, tcur, tfailed, polled, ret, hreq, stopEvent, extVars>>

\* run, lines 76-78 and 74: the poll times out, the loop sleeps and continues,
\* and the loop check finds the stop event set. While the event is clear a
\* timed-out poll leaves every variable as it is and is a stuttering step.
PollTimeout(t) ==
    /\ tpc[t] = "loop"
    /\ stopEvent[t]
    /\ tpc' = [tpc EXCEPT ![t] = "finally"]
    /\ UNCHANGED <<regVars, sockVars, frames, handlerVars, redisTask, redisConfigured,
                   tmsg, tevt, tsnap, ttodo, tcur, tfailed, tmalformed, polled, ret,
                   hreq, subVars, extVars>>

\* stop(), lines 53-55: sets the stop event of a subscriber that has not ended
Stop(t) ==
    /\ tpc[t] \notin {"unborn", "done"}
    /\ ~stopEvent[t]
    /\ stopEvent' = [stopEvent EXCEPT ![t] = TRUE]
    /\ UNCHANGED <<regVars, sockVars, frames, handlerVars, redisTask, redisConfigured,
                   taskVars, polled, ret, hreq, pubsub, extVars>>

\* run, lines 75-94 with a message, and handler lines 135-140 up to the call
\* of send_to_user. The poll may have been in flight when the stop event was
\* set, so a message can still arrive; the loop check follows on `continue`.
GetMessage(t) ==
    /\ tpc[t] = "loop"
    /\ polled < MaxMsgs
    /\ \E raw \in RawMessages :
         /\ tmsg' = [tmsg EXCEPT ![t] = raw]
         /\ tevt' = [tevt EXCEPT ![t] = polled + 1]
         /\ LET after == IF DecodeRaises(raw) THEN AfterDecodeFailure
                          ELSE IF Forwarded(raw) THEN "snap"
                          ELSE "loop"
            IN  tpc' = [tpc EXCEPT ![t] = IF after = "loop" THEN LoopCheck(t) ELSE after]
         /\ tmalformed' = [tmalformed EXCEPT ![t] =
                      @ \/ DecodeRaises(raw) \/ raw.kind = "jsonlist"
                        \/ (ReachesHandler(raw) /\ HandlerUserId(raw) = "")]
    /\ polled' = polled + 1
    /\ UNCHANGED <<regVars, sockVars, frames, handlerVars, redisTask, redisConfigured,
                   tsnap, ttodo, tcur, tfailed, ret, hreq, subVars, extVars>>

\* Mutant: the lock is kept for the whole send loop
LockAfterSnapshotHeld(t) == t

\* send_to_user: the lock is released at the end of the `async with` block
LockAfterSnapshot(t) == Free

\* send_to_user, lines 56-60: critical section (snapshot), early return when empty
Snapshot(t) ==
    /\ tpc[t] = "snap"
    /\ lock = Free
    /\ LET sockets == DictGet(connections, HandlerUserId(tmsg[t]))
       IN  /\ tsnap' = [tsnap EXCEPT ![t] = sockets]
           /\ ttodo' = [ttodo EXCEPT ![t] = sockets]
           /\ tpc' = [tpc EXCEPT ![t] = IF sockets = {} THEN "ret" ELSE "send"]
    /\ connections' = DictAfterLookup(connections, HandlerUserId(tmsg[t]))
    /\ lock' = LockAfterSnapshot(t)
    /\ UNCHANGED <<tcur, tfailed, registered, sockVars, frames, handlerVars, redisTask,
                   redisConfigured, tmsg, tevt, tmalformed, polled, ret, hreq, subVars, extVars>>

\* Mutant: the frame carries a fixed type instead of the message type
EnvelopeUntyped(messageType, evt) == [type |-> "message", evt |-> evt]

\* line 64: {"type": message_type, "data": data}; evt identifies the bus message
Envelope(messageType, evt) == [type |-> messageType, evt |-> evt]

\* Mutant: the first send failure ends the loop
AfterEvictionAborts(todo) == "ret"

\* send_to_user, line 62: next iteration, or return when the list is exhausted
AfterEviction(todo) == IF todo = {} THEN "ret" ELSE "send"

\* Mutant: the loop iterates the set of the registry itself
RemainingLive(t) == DictGet(connections, HandlerUserId(tmsg[t])) \ (tsnap[t] \ ttodo[t])

\* send_to_user, lines 57 and 62: the loop iterates `sockets`, a list copied
\* from the set under the lock; what is left of it
Remaining(t) == ttodo[t]

\* send_to_user, lines 62-66: one iteration, ws.send_json(...)
SendFrame(t) ==
    /\ tpc[t] = "send"
    /\ \E w \in Remaining(t), ok \in BOOLEAN :
         /\ ok => wsState[w] = "open"
         /\ ttodo' = [ttodo EXCEPT ![t] = @ \ {w}]
         /\ tcur' = [tcur EXCEPT ![t] = w]
         /\ IF ok
            THEN /\ frames' = [frames EXCEPT ![w] =
                        Append(@, Envelope(HandlerMessageType(tmsg[t]), tevt[t]))]
                 /\ tpc' = [tpc EXCEPT ![t] = IF ttodo[t] \ {w} = {} THEN "ret" ELSE "send"]
                 /\ UNCHANGED tfailed
            ELSE /\ tfailed' = [tfailed EXCEPT ![t] = @ \cup {w}]
                 /\ tpc' = [tpc EXCEPT ![t] = "close"]
                 /\ UNCHANGED frames
    /\ UNCHANGED <<regVars, sockVars, handlerVars, redisTask, redisConfigured,
                   tmsg, tevt, tsnap, tmalformed, polled, ret, hreq, subVars, extVars>>

\* Mutant: an error raised by close leaves send_to_user and ends the loop
AfterCloseRaisePropagates(closeRaised) == IF closeRaised THEN "finally" ELSE "evict_cs"

\* send_to_user, lines 69-71: `except Exception: pass`, then disconnect
AfterClose(closeRaised) == "evict_cs"

\* send_to_user, lines 67-70: ws.close(code=1011). The handle is closed after
\* the call whether or not it raises; close on a handle that is already closed
\* raises and leaves its close code as it was.
CloseFailed(t) ==
    /\ tpc[t] = "close"
    /\ \E closeRaised \in BOOLEAN :
         /\ wsState[tcur[t]] = "closed" => closeRaised
         /\ IF wsState[tcur[t]] = "closed"
            THEN UNCHANGED <<wsState, closeCode, closeReason>>
            ELSE /\ wsState' = [wsState EXCEPT ![tcur[t]] = "closed"]
                 /\ closeCode' = [closeCode EXCEPT ![tcur[t]] = 1011]
                 /\ closeReason' = [closeReason EXCEPT ![tcur[t]] = ""]
         /\ tpc' = [tpc EXCEPT ![t] = AfterClose(closeRaised)]
    /\ UNCHANGED <<regVars, frames, handlerVars, redisTask, redisConfigured,
                   tmsg, tevt, tsnap, ttodo, tcur, tfailed, tmalformed, polled, ret, hreq, subVars, extVars>>

\* send_to_user, line 71 -> disconnect (lines 42-46, one critical section)
EvictCS(t) ==
    /\ tpc[t] = "evict_cs"
    /\ lock = Free
    /\ connections' = DictDiscard(connections, HandlerUserId(tmsg[t]), tcur[t])
    /\ registered' = registered \ {<<HandlerUserId(tmsg[t]), tcur[t]>>}
    /\ lock' = Free
    /\ tpc' = [tpc EXCEPT ![t] = AfterEviction(ttodo[t])]
    /\ UNCHANGED <<sockVars, frames, handlerVars, redisTask, redisConfigured,
                   tmsg, tevt, tsnap, ttodo, tcur, tfailed, tmalformed, polled, ret, hreq, subVars, extVars>>

\* send_to_user returns, the handler returns, run continues with the next poll;
\* the locals of the finished call are gone
HandlerReturn(t) ==
    /\ tpc[t] = "ret"
    /\ tpc' = [tpc EXCEPT ![t] = LoopCheck(t)]
    /\ tsnap' = [tsnap EXCEPT ![t] = {}]
    /\ ttodo' = [ttodo EXCEPT ![t] = {}]
    /\ tcur' = [tcur EXCEPT ![t] = NoSocket]
    /\ tfailed' = [tfailed EXCEPT ![t] = {}]
    /\ UNCHANGED <<regVars, sockVars, frames, handlerVars, redisTask, redisConfigured,
                   tmsg, tevt, tmalformed, polled, ret, hreq, subVars, extVars>>

HandlerStep(w) ==
    \/ Handshake(w)
    \/ ConnectAccept(w)
    \/ ConnectCS(w)
    \/ EnsureStarted(w)
    \/ SendConnected(w)
    \/ Receive(w)
    \/ FinallyCS(w)

SubscriberStep(t) ==
    \/ Subscribe(t)
    \/ PollRaises(t)
    \/ RunFinally(t)
    \/ GetMessage(t)
    \/ Snapshot(t)
    \/ SendFrame(t)
    \/ CloseFailed(t)
    \/ EvictCS(t)
    \/ HandlerReturn(t)

\* Mutant: a handler gives up the event loop after every step
UnsuspendedNowhere == {}

\* Positions a handler reaches and leaves without awaiting anything that
\* suspends it: after accept() has returned, the lock of connect is free and
\* is taken at once (lines 36-37), _ensure_redis_subscription_started and
\* create_redis_client await nothing that suspends, get_unread_count is a
\* plain call, and after an exception the finally clause takes the free lock
\* of disconnect at once
Unsuspended == {"connect_cs", "ensure", "send_connected", "fin_cs"}

\* the handlers that are running on the event loop
Running == {w \in Sockets : hpc[w] \in Unsuspended}

\* the event loop runs one task at a time, and a running task keeps it until
\* it suspends
MayRun(x) == Running \subseteq {x}

Next ==
    \/ \E w \in Sockets : MayRun(w) /\ HandlerStep(w)
    \/ \E t \in Tasks : MayRun(t) /\ SubscriberStep(t)

Spec == Init /\ [][Next]_vars

NextReg ==
    \/ \E u \in Users, w \in Sockets : CallConnect(u, w)
    \/ \E u \in Users, w \in Sockets : CallDisconnect(u, w)
    \/ \E u \in Users : CallCount(u)

SpecReg == Init /\ [][NextReg]_vars

\* ------------------------------------------------------------------------
\* A RedisSubscriber whose owner calls stop()
\* ------------------------------------------------------------------------

\* One connection of user u1 is registered and open and the subscriber task
\* has just been created; the owner keeps the subscriber and may stop it
InitSub ==
    /\ connections = DictAdd(EmptyDict, "u1", "w1")
    /\ lock = Free
    /\ wsState = [w \in Sockets |-> IF w = "w1" THEN "open" ELSE "connecting"]
    /\ closeCode = [w \in Sockets |-> 0]
    /\ closeReason = [w \in Sockets |-> ""]
    /\ frames = [w \in Sockets |-> <<>>]
    /\ hpc = [w \in Sockets |-> IF w = "w1" THEN "recv" ELSE "start"]
    /\ huser = [w \in Sockets |-> IF w = "w1" THEN "u1" ELSE ""]
    /\ hreq = [w \in Sockets |->
                 IF w = "w1" THEN Request("allowed", "good", "", "u1", TRUE, TRUE)
                 ELSE NoRequest]
    /\ redisTask = "t1"
    /\ redisConfigured = TRUE
    /\ redisUrlValid = TRUE
    /\ tpc = [t \in Tasks |-> IF t = "t1" THEN "created" ELSE "unborn"]
    /\ tmsg = [t \in Tasks |-> NoMessage]
    /\ tevt = [t \in Tasks |-> 0]
    /\ tsnap = [t \in Tasks |-> {}]
    /\ ttodo = [t \in Tasks |-> {}]
    /\ tcur = [t \in Tasks |-> NoSocket]
    /\ tfailed = [t \in Tasks |-> {}]
    /\ tmalformed = [t \in Tasks |-> FALSE]
    /\ polled = 0
    /\ registered = {<<"u1", "w1">>}
    /\ ret = NoRet
    /\ pubsub = [t \in Tasks |-> "none"]
    /\ stopEvent = [t \in Tasks |-> FALSE]
    /\ notifs = NoRows
    /\ clock = 1
    /\ rres = NoResponse
    /\ bc = NoBroadcasts
    /\ InitMore
    /\ TRUSTED_PROXIES = {}

NextSub ==
    \/ SubscriberStep("t1")
    \/ PollTimeout("t1")
    \/ Stop("t1")

SpecSub == InitSub /\ [][NextSub]_vars

\* the loop of a running subscriber makes progress: a poll returns or times
\* out within its bound, a sleep ends, a handler call returns
FairSub == SpecSub /\ WF_vars(SubscriberStep("t1") \/ PollTimeout("t1"))

\* ------------------------------------------------------------------------
\* Read-state endpoints of /notifications
\* ------------------------------------------------------------------------

NotificationIds == {"n1", "n2", "n3"}

\* ids a client can name: the stored ones and one that no row has
RequestedIds == NotificationIds \cup {"nx"}

\* a stored notification, unread
Row(id, u) ==
    [user_id |-> u, category |-> "SYSTEM", title |-> id, body |-> id, data |-> id,
     read_at |-> Null]

\* three notifications exist and are unread: n1 belongs to u1, each of the
\* others to some user; the bus is not configured
InitRead ==
    /\ InitDelivery
    /\ ~redisConfigured
    /\ \E owner \in [NotificationIds -> Users] :
         /\ owner["n1"] = "u1"
         /\ notifs = [id \in NotificationIds |-> Row(id, owner[id])]
    /\ clock = 1
    /\ rres = NoResponse
    /\ bc = NoBroadcasts
    /\ InitMore
    /\ TRUSTED_PROXIES = {}

\* Mutant: the UPDATE has no `read_at IS NULL` condition
UpdateTargetsAlsoRead(rows, u, ids) ==
    {id \in ids \cap DOMAIN rows : rows[id].user_id = u}

\* Mutant: the UPDATE has no `user_id == user_id` condition
UpdateTargetsAnyOwner(rows, u, ids) ==
    {id \in ids \cap DOMAIN rows : rows[id].read_at = Null}

\* the rows matched by the UPDATE of mark_batch_read (lines 170-175) and, with
\* every id, of mark_all_read (line 142): owned by the caller and unread
UpdateTargets(rows, u, ids) ==
    {id \in ids \cap DOMAIN rows : rows[id].user_id = u /\ rows[id].read_at = Null}

\* UPDATE ... SET read_at = now on the matched rows
SetReadAt(rows, targets, now) ==
    [id \in DOMAIN rows |-> IF id \in targets THEN [rows[id] EXCEPT !.read_at = now]
                            ELSE rows[id]]

\* datetime.utcnow() moves on
Tick ==
    /\ clock < MaxClock
    /\ clock' = clock + 1
    /\ UNCHANGED <<regVars, sockVars, frames, handlerVars, redisTask, redisConfigured,
                   taskVars, polled, ret, hreq, subVars, notifs, rres, bcVars, moreVars>>

\* POST /notifications/{notification_id}/read, lines 99-124
mark_read(u, id) ==
    /\ LET found == id \in DOMAIN notifs /\ notifs[id].user_id = u
       IN  IF ~found
           THEN /\ rres' = [op |-> "mark_read", user |-> u, ids |-> {id}, status |-> 404,
                            updated |-> 0, read_at |-> Null]
                /\ UNCHANGED notifs
           ELSE LET fresh == notifs[id].read_at = Null
                    after == IF fresh THEN SetReadAt(notifs, {id}, clock) ELSE notifs
                IN  /\ notifs' = after
                    /\ rres' = [op |-> "mark_read", user |-> u, ids |-> {id},
                                status |-> 200, updated |-> IF fresh THEN 1 ELSE 0,
                                read_at |-> after[id].read_at]
    /\ UNCHANGED <<regVars, sockVars, frames, handlerVars, redisTask, redisConfigured,
                   taskVars, polled, ret, hreq, subVars, clock, bcVars, moreVars>>

\* POST /notifications/read-all, lines 127-147
mark_all_read(u) ==
    /\ LET targets == UpdateTargets(notifs, u, DOMAIN notifs)
       IN  /\ notifs' = SetReadAt(notifs, targets, clock)
           /\ rres' = [op |-> "mark_all_read", user |-> u, ids |-> {}, status |-> 200,
                       updated |-> Cardinality(targets), read_at |-> clock]
    /\ UNCHANGED <<regVars, sockVars, frames, handlerVars, redisTask, redisConfigured,
                   taskVars, polled, ret, hreq, subVars, clock, bcVars, moreVars>>

\* POST /notifications/read-batch, lines 150-180
mark_batch_read(u, ids) ==
    /\ LET targets == UpdateTargets(notifs, u, ids)
       IN  /\ notifs' = SetReadAt(notifs, targets, clock)
           /\ rres' = [op |-> "mark_batch_read", user |-> u, ids |-> ids, status |-> 200,
                       updated |-> Cardinality(targets), read_at |-> clock]
    /\ UNCHANGED <<regVars, sockVars, frames, handlerVars, redisTask, redisConfigured,
                   taskVars, polled, ret, hreq, subVars, clock, bcVars, moreVars>>

NextRead ==
    \/ Tick
    \/ \E u \in Users, id \in RequestedIds : mark_read(u, id)
    \/ \E u \in Users : mark_all_read(u)
    \/ \E u \in Users, ids \in SUBSET RequestedIds : mark_batch_read(u, ids)

SpecRead == InitRead /\ [][NextRead]_vars

\* ------------------------------------------------------------------------
\* Broadcast Manager: rows of notification_broadcasts and their state machine
\* ------------------------------------------------------------------------

Keys == {"k1", "k2"}
Bodies == {"x", "y"}

\* the CHECK constraint on status (migration 004, lines 70-73)
Statuses == {"DRAFT", "SENDING", "SENT", "PARTIAL_FAILED", "FAILED", "DELETED"}

Terminal == {"SENT", "PARTIAL_FAILED", "FAILED"}

\* Mutant: a new row starts with one failure counted
NewBroadcastFailedOne(key, body) ==
    [idempotency_key |-> key, body |-> body, status |-> "DRAFT", total_targets |-> 0,
     processed |-> 0, sent_count |-> 0, failed_count |-> 1, last_error |-> ""]

\* Mutant: a new row starts in SENDING
NewBroadcastSending(key, body) ==
    [idempotency_key |-> key, body |-> body, status |-> "SENDING", total_targets |-> 0,
     processed |-> 0, sent_count |-> 0, failed_count |-> 0, last_error |-> ""]

\* a row as inserted with the server defaults of the table (lines 50-54):
\* status 'DRAFT', the four counters 0; last_error is nullable ("" = null)
NewBroadcast(key, body) ==
    [idempotency_key |-> key, body |-> body, status |-> "DRAFT", total_targets |-> 0,
     processed |-> 0, sent_count |-> 0, failed_count |-> 0, last_error |-> ""]

\* Mutant: the table has no unique constraint on idempotency_key
KeyFreeUnchecked(rows, key) == TRUE

\* the unique constraint on idempotency_key (line 44) admits a row with `key`
KeyFree(rows, key) == \A x \in DOMAIN rows : rows[x].idempotency_key # key

\* the stored broadcast with `key`
Existing(rows, key) == CHOOSE x \in DOMAIN rows : rows[x].idempotency_key = key

\* create a broadcast under a key no stored broadcast has (idempotency_key is
\* unique, line 44)
CreateBroadcast(b, key, body) ==
    /\ b \notin DOMAIN bc
    /\ KeyFree(bc, key)
    /\ bc' = [x \in DOMAIN bc \cup {b} |-> IF x = b THEN NewBroadcast(key, body) ELSE bc[x]]
    /\ UNCHANGED <<regVars, sockVars, frames, handlerVars, redisTask, redisConfigured,
                   taskVars, polled, ret, hreq, subVars, readVars, brows, moreVars>>

\* DRAFT -> SENDING: the audience is resolved, total_targets is fixed
StartSending(b, n) ==
    /\ b \in DOMAIN bc
    /\ bc[b].status = "DRAFT"
    /\ bc' = [bc EXCEPT ![b].status = "SENDING", ![b].total_targets = n]
    /\ UNCHANGED <<regVars, sockVars, frames, handlerVars, redisTask, redisConfigured,
                   taskVars, polled, ret, hreq, subVars, readVars, brows, moreVars>>

\* one target completes: its Notification row is written, processed and
\* sent_count or failed_count go up by one in one atomic update
ProcessTarget(b, ok) ==
    /\ b \in DOMAIN bc
    /\ bc[b].status = "SENDING"
    /\ bc[b].processed < bc[b].total_targets
    /\ bc' = [bc EXCEPT ![b].processed = @ + 1,
                        ![b].sent_count = IF ok THEN @ + 1 ELSE @,
                        ![b].failed_count = IF ok THEN @ ELSE @ + 1]
    /\ brows' = brows \cup {<<b, bc[b].processed + 1>>}
    /\ UNCHANGED <<regVars, sockVars, frames, handlerVars, redisTask, redisConfigured,
                   taskVars, polled, ret, hreq, subVars, readVars, moreVars>>

\* Mutant: the broadcast completes once a target has been processed
AllProcessedAfterFirst(row) == row.processed >= 1

\* all targets processed
AllProcessed(row) == row.processed = row.total_targets

\* Mutant: any failure makes the broadcast FAILED
CompletionStatusesStrict(row) ==
    IF row.failed_count = 0 THEN {"SENT"} ELSE {"FAILED"}

\* the transition rules out of SENDING whose condition on failed_count holds
CompletionStatuses(row) ==
    {st \in Terminal :
        \/ st = "SENT" /\ row.failed_count = 0
        \/ st = "PARTIAL_FAILED" /\ 0 < row.failed_count
                                 /\ row.failed_count < row.total_targets
        \/ st = "FAILED" /\ row.failed_count = row.total_targets}

\* SENDING -> SENT | PARTIAL_FAILED | FAILED once all targets are processed
Complete(b) ==
    /\ b \in DOMAIN bc
    /\ bc[b].status = "SENDING"
    /\ AllProcessed(bc[b])
    /\ \E st \in CompletionStatuses(bc[b]) : bc' = [bc EXCEPT ![b].status = st]
    /\ UNCHANGED <<regVars, sockVars, frames, handlerVars, redisTask, redisConfigured,
                   taskVars, polled, ret, hreq, subVars, readVars, brows, moreVars>>

\* SENDING -> FAILED: an unrecoverable error aborts fan-out before completion
AbortFanout(b) ==
    /\ b \in DOMAIN bc
    /\ bc[b].status = "SENDING"
    /\ bc[b].processed < bc[b].total_targets
    /\ bc' = [bc EXCEPT ![b].status = "FAILED", ![b].last_error = "aborted"]
    /\ UNCHANGED <<regVars, sockVars, frames, handlerVars, redisTask, redisConfigured,
                   taskVars, polled, ret, hreq, subVars, readVars, brows, moreVars>>

\* an unrecoverable setup error (e.g. audience resolution fails) aborts the
\* broadcast with FAILED before SENDING
SetupFailure(b) ==
    /\ b \in DOMAIN bc
    /\ bc[b].status = "DRAFT"
    /\ bc' = [bc EXCEPT ![b].status = "FAILED", ![b].last_error = "setup"]
    /\ UNCHANGED <<regVars, sockVars, frames, handlerVars, redisTask, redisConfigured,
                   taskVars, polled, ret, hreq, subVars, readVars, brows, moreVars>>

\* Mutant: the delete also removes the Notification rows of the broadcast
SoftDeleteCascading(b) ==
    /\ b \in DOMAIN bc
    /\ bc[b].status # "DELETED"
    /\ bc' = [bc EXCEPT ![b].status = "DELETED"]
    /\ brows' = {r \in brows : r[1] # b}
    /\ UNCHANGED <<regVars, sockVars, frames, handlerVars, redisTask, redisConfigured,
                   taskVars, polled, ret, hreq, subVars, readVars, moreVars>>

\* any non-DELETED state -> DELETED: soft delete, counts frozen, the
\* per-user Notification rows stay
SoftDelete(b) ==
    /\ b \in DOMAIN bc
    /\ bc[b].status # "DELETED"
    /\ bc' = [bc EXCEPT ![b].status = "DELETED"]
    /\ UNCHANGED <<regVars, sockVars, frames, handlerVars, redisTask, redisConfigured,
                   taskVars, polled, ret, hreq, subVars, readVars, brows, moreVars>>

NextBroadcast ==
    \/ \E b \in BroadcastIds, key \in Keys, body \in Bodies : CreateBroadcast(b, key, body)
    \/ \E b \in BroadcastIds, n \in 0..MaxTargets : StartSending(b, n)
    \/ \E b \in BroadcastIds, ok \in BOOLEAN : ProcessTarget(b, ok)
    \/ \E b \in BroadcastIds : Complete(b)
    \/ \E b \in BroadcastIds : AbortFanout(b)
    \/ \E b \in BroadcastIds : SetupFailure(b)
    \/ \E b \in BroadcastIds : SoftDelete(b)

SpecBroadcast == Init /\ [][NextBroadcast]_vars

\* ------------------------------------------------------------------------
\* Create-broadcast requests of concurrent callers: look the key up, insert
\* when it is absent, return the stored broadcast otherwise
\* ------------------------------------------------------------------------

createFrame == <<regVars, sockVars, frames, handlerVars, redisTask, redisConfigured,
             redisUrlValid,
                 taskVars, polled, ret, hreq, subVars, readVars, brows, workerVars,
                 outboxVars, limitVars, ipVars>>

\* a create request arrives and looks for a broadcast with its key
CreateLookup(c, key, body) ==
    /\ creq[c].pc \in {"idle", "done"}
    /\ creq' = [creq EXCEPT ![c] = [pc |-> IF KeyFree(bc, key) THEN "insert" ELSE "found",
                                    key |-> key, body |-> body]]
    /\ cres' = [cres EXCEPT ![c] = NoBroadcast]
    /\ UNCHANGED <<bc, createFrame>>

\* the lookup found the key: the existing broadcast is returned
CreateReturn(c) ==
    /\ creq[c].pc = "found"
    /\ creq' = [creq EXCEPT ![c].pc = "done"]
    /\ cres' = [cres EXCEPT ![c] = Existing(bc, creq[c].key)]
    /\ UNCHANGED <<bc, createFrame>>

\* the lookup found nothing: insert; a unique-constraint violation
\* (PersistenceConflict) is resolved by returning the existing broadcast
CreateInsert(c, b) ==
    /\ creq[c].pc = "insert"
    /\ creq' = [creq EXCEPT ![c].pc = "done"]
    /\ IF KeyFree(bc, creq[c].key)
         THEN /\ b \notin DOMAIN bc
              /\ bc' = [x \in DOMAIN bc \cup {b} |->
                          IF x = b THEN NewBroadcast(creq[c].key, creq[c].body) ELSE bc[x]]
              /\ cres' = [cres EXCEPT ![c] = b]
         ELSE /\ bc' = bc
              /\ cres' = [cres EXCEPT ![c] = Existing(bc, creq[c].key)]
    /\ UNCHANGED createFrame

\* the campaign of a stored broadcast runs while requests arrive
NextCreate ==
    \/ \E c \in Clients, key \in Keys, body \in Bodies : CreateLookup(c, key, body)
    \/ \E c \in Clients : CreateReturn(c)
    \/ \E c \in Clients, b \in BroadcastIds : CreateInsert(c, b)
    \/ \E b \in BroadcastIds : StartSending(b, 1)
    \/ \E b \in BroadcastIds, ok \in BOOLEAN : ProcessTarget(b, ok)
    \/ \E b \in BroadcastIds : Complete(b)

SpecCreate == InitLocal /\ [][NextCreate]_vars

\* ------------------------------------------------------------------------
\* Fan-out by concurrent workers: a worker takes a target of a SENDING
\* broadcast, delivers it, then counts it
\* ------------------------------------------------------------------------

workerFrame == <<regVars, sockVars, frames, handlerVars, redisTask, redisConfigured,
             redisUrlValid,
                 taskVars, polled, ret, hreq, subVars, readVars, createVars, outboxVars,
                 limitVars, ipVars>>

\* the workers busy with a target of broadcast b
Busy(b) == {w \in Workers : wk[w].pc = "busy" /\ wk[w].b = b}

\* Mutant: read-modify-write, the new value is computed from the value the
\* worker read when it took the target
IncrementedFromRead(stored, read) == read + 1

\* atomic increment: the new value is computed from the stored value
Incremented(stored, read) == stored + 1

\* a worker takes a target no worker has taken yet, and reads the row
TakeTarget(w, b) ==
    /\ wk[w].pc = "idle"
    /\ b \in DOMAIN bc
    /\ bc[b].status = "SENDING"
    /\ finished[b] + Cardinality(Busy(b)) < bc[b].total_targets
    /\ wk' = [wk EXCEPT ![w] = [pc |-> "busy", b |-> b,
                                seen |-> [processed |-> bc[b].processed,
                                          sent_count |-> bc[b].sent_count,
                                          failed_count |-> bc[b].failed_count]]]
    /\ UNCHANGED <<bc, brows, finished, workerFrame>>

\* the target completes: its Notification row is written and the counters of
\* the broadcast are incremented
FinishTarget(w, ok) ==
    /\ wk[w].pc = "busy"
    /\ LET b == wk[w].b
           seen == wk[w].seen
       IN /\ bc' = [bc EXCEPT
                     ![b].processed = Incremented(@, seen.processed),
                     ![b].sent_count =
                         IF ok THEN Incremented(@, seen.sent_count) ELSE @,
                     ![b].failed_count =
                         IF ok THEN @ ELSE Incremented(@, seen.failed_count)]
          /\ brows' = brows \cup {<<b, finished[b] + 1>>}
          /\ finished' = [finished EXCEPT ![b] = @ + 1]
    /\ wk' = [wk EXCEPT ![w] = Idle]
    /\ UNCHANGED workerFrame

NextWorkers ==
    \/ \E b \in BroadcastIds, key \in Keys, body \in Bodies : CreateBroadcast(b, key, body)
    \/ \E b \in BroadcastIds, n \in 0..MaxTargets : StartSending(b, n)
    \/ \E w \in Workers, b \in BroadcastIds : TakeTarget(w, b)
    \/ \E w \in Workers, ok \in BOOLEAN : FinishTarget(w, ok)
    \/ \E b \in BroadcastIds : Complete(b)

SpecWorkers == InitLocal /\ [][NextWorkers]_vars

\* ------------------------------------------------------------------------
\* Outbox Writer and Outbox Processor, with crashes and restarts of the
\* process that runs them
\* ------------------------------------------------------------------------

outboxFrame == <<regVars, sockVars, frames, handlerVars, redisTask, redisConfigured,
             redisUrlValid,
                 taskVars, polled, ret, hreq, subVars, readVars, bcVars, createVars,
                 workerVars, limitVars, ipVars>>

\* an entry as the Writer inserts it
NewEntry == [status |-> "PENDING", attempt |-> 0, last_error |-> ""]

\* the Writer opens a transaction and inserts the Notification row of the
\* next durable event
WriterInsertNotification(n) ==
    /\ proc.pc # "down"
    /\ tx.pc = "none"
    /\ n \notin onotifs
    /\ \A m \in OutboxIds : m < n => m \in onotifs
    /\ tx' = [pc |-> "notification", n |-> n]
    /\ UNCHANGED <<onotifs, outbox, proc, crashes, published, outboxFrame>>

\* in the same transaction the Writer inserts the OutboxEntry row
WriterInsertEntry ==
    /\ tx.pc = "notification"
    /\ tx' = [tx EXCEPT !.pc = "both"]
    /\ UNCHANGED <<onotifs, outbox, proc, crashes, published, outboxFrame>>

\* commit: both rows become visible together
WriterCommit ==
    /\ tx.pc = "both"
    /\ onotifs' = onotifs \cup {tx.n}
    /\ outbox' = [e \in DOMAIN outbox \cup {tx.n} |->
                    IF e = tx.n THEN NewEntry ELSE outbox[e]]
    /\ tx' = NoTx
    /\ UNCHANGED <<proc, crashes, published, outboxFrame>>

\* Mutant: a rollback keeps the Notification row inserted so far
RolledBackKeepsNotification(rows, t) == rows \cup {t.n}

\* the committed Notification rows after the open transaction is rolled back
RolledBack(rows, t) == rows

\* a failure during the write: the transaction is rolled back
WriterFail ==
    /\ tx.pc # "none"
    /\ onotifs' = RolledBack(onotifs, tx)
    /\ tx' = NoTx
    /\ UNCHANGED <<outbox, proc, crashes, published, outboxFrame>>

PendingEntries == {e \in DOMAIN outbox : outbox[e].status = "PENDING"}

\* the oldest of a non-empty set of entries
Oldest(S) == CHOOSE e \in S : \A o \in S : e <= o

\* the Processor selects PENDING entries, oldest first
Select ==
    /\ proc.pc = "idle"
    /\ PendingEntries # {}
    /\ proc' = [pc |-> "selected", e |-> Oldest(PendingEntries)]
    /\ UNCHANGED <<onotifs, outbox, tx, crashes, published, outboxFrame>>

\* the publish succeeds: the entry becomes DISPATCHED
PublishOk ==
    /\ proc.pc = "selected"
    /\ outbox' = [outbox EXCEPT ![proc.e].status = "DISPATCHED"]
    /\ published' = [published EXCEPT ![proc.e] = @ + 1]
    /\ proc' = [proc EXCEPT !.pc = "dispatched"]
    /\ UNCHANGED <<onotifs, tx, crashes, outboxFrame>>

\* Mutant: the entry is acknowledged without the publish
AckEarly ==
    /\ proc.pc \in {"selected", "dispatched"}
    /\ outbox' = [outbox EXCEPT ![proc.e].status = "ACKED"]
    /\ proc' = ProcIdle
    /\ UNCHANGED <<onotifs, tx, crashes, published, outboxFrame>>

\* ... and then ACKED
Ack ==
    /\ proc.pc = "dispatched"
    /\ outbox' = [outbox EXCEPT ![proc.e].status = "ACKED"]
    /\ proc' = ProcIdle
    /\ UNCHANGED <<onotifs, tx, crashes, published, outboxFrame>>

\* Mutant: an entry is given up only after one attempt more than the budget
AfterFailureOneMore(entry) ==
    [entry EXCEPT !.attempt = @ + 1,
                  !.status = IF entry.attempt + 1 <= MaxAttempts THEN "PENDING" ELSE "FAILED",
                  !.last_error = "publish failed"]

\* on publish failure: increment the attempt count, leave the entry PENDING
\* (attempt < max) or mark it FAILED with the error text (attempt >= max)
AfterFailure(entry) ==
    [entry EXCEPT !.attempt = @ + 1,
                  !.status = IF entry.attempt + 1 < MaxAttempts THEN "PENDING" ELSE "FAILED",
                  !.last_error = "publish failed"]

\* the publish fails
PublishFail ==
    /\ proc.pc = "selected"
    /\ outbox' = [outbox EXCEPT ![proc.e] = AfterFailure(@)]
    /\ published' = [published EXCEPT ![proc.e] = @ + 1]
    /\ proc' = ProcIdle
    /\ UNCHANGED <<onotifs, tx, crashes, outboxFrame>>

\* an entry is deleted once DISPATCHED and acknowledged; FAILED ones are left
Deletable(entry) == entry.status = "ACKED"

DeleteEntry(e) ==
    /\ proc.pc # "down"
    /\ e \in DOMAIN outbox
    /\ Deletable(outbox[e])
    /\ outbox' = [o \in DOMAIN outbox \ {e} |-> outbox[o]]
    /\ UNCHANGED <<onotifs, tx, proc, crashes, published, outboxFrame>>

\* the process crashes: the open transaction is rolled back, the Processor
\* forgets the entry in hand
Crash ==
    /\ proc.pc # "down"
    /\ crashes < MaxCrashes
    /\ crashes' = crashes + 1
    /\ onotifs' = RolledBack(onotifs, tx)
    /\ tx' = NoTx
    /\ proc' = ProcDown
    /\ UNCHANGED <<outbox, published, outboxFrame>>

\* the process restarts: the Processor resumes from the PENDING rows
Restart ==
    /\ proc.pc = "down"
    /\ proc' = ProcIdle
    /\ UNCHANGED <<onotifs, outbox, tx, crashes, published, outboxFrame>>

WriterStep ==
    \/ \E n \in OutboxIds : WriterInsertNotification(n)
    \/ WriterInsertEntry
    \/ WriterCommit
    \/ WriterFail

ProcessorStep == Select \/ PublishOk \/ PublishFail \/ Ack

NextOutbox ==
    \/ WriterStep
    \/ ProcessorStep
    \/ \E e \in OutboxIds : DeleteEntry(e)
    \/ Crash
    \/ Restart

SpecOutbox == InitLocal /\ [][NextOutbox]_vars

\* a fair Processor: it keeps taking steps while it has one to take, and a
\* crashed process is restarted; the Writer finishes its transaction
FairOutbox ==
    /\ SpecOutbox
    /\ WF_vars(ProcessorStep)
    /\ WF_vars(Restart)
    /\ WF_vars(WriterInsertEntry \/ WriterCommit)

\* ------------------------------------------------------------------------
\* LoginRateLimiter: calls made one after another (each holds the lock for
\* its whole body), with time passing between them
\* ------------------------------------------------------------------------

limitFrame == <<regVars, sockVars, frames, handlerVars, redisTask, redisConfigured,
             redisUrlValid,
                taskVars, polled, ret, hreq, subVars, readVars, bcVars, createVars,
                workerVars, outboxVars, ipVars>>

Identifiers == {"a", "b"}

\* time.time() is a float: a second has TicksPerSecond ticks
TicksPerSecond == 2

\* the limiter under check: LoginRateLimiter(max_attempts=2, window_seconds=1,
\* lockout_seconds=1, max_lockout_seconds=4)
max_attempts == 2
window_seconds == 1
lockout_seconds == 1
max_lockout_seconds == 4

\* the dataclass defaults
AttemptRecord ==
    [attempts |-> 0, first_attempt_at |-> 0, locked_until |-> 0, last_attempt_at |-> 0]

\* d[key] on a defaultdict: the stored value, or the default (which the
\* lookup stores)
Lookup(d, key, default) == IF key \in DOMAIN d THEN d[key] ELSE default

Store(d, key, value) == [k \in DOMAIN d \cup {key} |-> IF k = key THEN value ELSE d[k]]

Remove(d, keys) == [k \in DOMAIN d \ keys |-> d[k]]

Min(x, y) == IF x <= y THEN x ELSE y

\* int(record.locked_until - now): whole seconds, the fraction cut off
RetryAfter(locked_until, t) == (locked_until - t) \div TicksPerSecond

\* check_rate_limit(identifier)
check_rate_limit(id) ==
    LET record == Lookup(records, id, AttemptRecord)
    IN /\ IF record.locked_until > time
            THEN /\ lres' = [op |-> "check", id |-> id, allowed |-> FALSE,
                             retry_after |-> RetryAfter(record.locked_until, time)]
                 /\ records' = Store(records, id, record)
            ELSE /\ lres' = [op |-> "check", id |-> id, allowed |-> TRUE,
                             retry_after |-> NoRetry]
                 /\ records' = Store(records, id,
                        IF /\ record.first_attempt_at > 0
                           /\ time > record.first_attempt_at + window_seconds * TicksPerSecond
                        THEN [record EXCEPT !.attempts = 0, !.first_attempt_at = 0]
                        ELSE record)
       /\ UNCHANGED <<lockout_counts, time, limitFrame>>

\* the duration of the count-th lockout, in seconds
LockoutDuration(count) ==
    LET lockout_multiplier == Min(count, max_lockout_seconds \div lockout_seconds)
    IN Min(lockout_seconds * lockout_multiplier, max_lockout_seconds)

\* Mutant: a success lifts the lockout but keeps the failures counted so far
AfterSuccessKeepsAttempts(record) == [record EXCEPT !.locked_until = 0]

\* on success: the attempt count, the window and the lockout are cleared
AfterSuccess(record) ==
    [record EXCEPT !.attempts = 0, !.first_attempt_at = 0, !.locked_until = 0]

\* record_attempt(identifier, success)
record_attempt(id, success) ==
    LET record == Lookup(records, id, AttemptRecord)
        counted == [record EXCEPT
                      !.first_attempt_at = IF @ = 0 THEN time ELSE @,
                      !.attempts = @ + 1,
                      !.last_attempt_at = time]
        count == Lookup(lockout_counts, id, 0) + 1
    IN /\ IF success
            THEN /\ records' = Store(records, id, AfterSuccess(record))
                 /\ UNCHANGED lockout_counts
            ELSE IF counted.attempts >= max_attempts
            THEN /\ count <= MaxLockouts
                 /\ lockout_counts' = Store(lockout_counts, id, count)
                 /\ records' = Store(records, id,
                        [counted EXCEPT
                            !.locked_until = time + LockoutDuration(count) * TicksPerSecond,
                            !.attempts = 0, !.first_attempt_at = 0])
            ELSE /\ records' = Store(records, id, counted)
                 /\ UNCHANGED lockout_counts
       /\ lres' = [op |-> IF success THEN "success" ELSE "failure", id |-> id,
                   allowed |-> TRUE, retry_after |-> NoRetry]
       /\ UNCHANGED <<time, limitFrame>>

\* Mutant: reset forgets the record but keeps the lockout count
reset_record_only(id) ==
    /\ records' = Remove(records, {id})
    /\ UNCHANGED lockout_counts
    /\ lres' = [op |-> "reset", id |-> id, allowed |-> TRUE, retry_after |-> NoRetry]
    /\ UNCHANGED <<time, limitFrame>>

\* reset(identifier)
reset(id) ==
    /\ records' = Remove(records, {id})
    /\ lockout_counts' = Remove(lockout_counts, {id})
    /\ lres' = [op |-> "reset", id |-> id, allowed |-> TRUE, retry_after |-> NoRetry]
    /\ UNCHANGED <<time, limitFrame>>

\* cleanup_expired()
cleanup_expired ==
    LET cutoff == time - window_seconds * 2 * TicksPerSecond
        expired == {k \in DOMAIN records :
                      records[k].last_attempt_at < cutoff /\ records[k].locked_until < time}
    IN /\ records' = Remove(records, expired)
       /\ lockout_counts' = Remove(lockout_counts, expired)
       /\ lres' = [op |-> "cleanup", id |-> "", allowed |-> TRUE,
                   retry_after |-> Cardinality(expired)]
       /\ UNCHANGED <<time, limitFrame>>

\* time passes
Advance ==
    /\ time < MaxNow
    /\ time' = time + 1
    /\ UNCHANGED <<records, lockout_counts, lres, limitFrame>>

NextLimit ==
    \/ \E id \in Identifiers : check_rate_limit(id)
    \/ \E id \in Identifiers, success \in BOOLEAN : record_attempt(id, success)
    \/ \E id \in Identifiers : reset(id)
    \/ cleanup_expired
    \/ Advance

SpecLimit == InitLocal /\ [][NextLimit]_vars

\* ------------------------------------------------------------------------
\* get_client_ip: calls made one after another (the function never awaits) in
\* a process whose settings were loaded when it started
\* ------------------------------------------------------------------------

ipFrame == <<regVars, sockVars, frames, handlerVars, redisTask, redisConfigured,
             redisUrlValid,
             taskVars, polled, ret, hreq, subVars, readVars, bcVars, createVars,
             workerVars, outboxVars, limitVars>>

\* longest X-Forwarded-For value considered, in tokens
MaxHeader == 3

\* ipaddress.ip_address(text): the address a text denotes, as network part
\* and host part; any other text raises ValueError
NotAnAddress == <<>>
ip_address(text) ==
    CASE text = "10.0.0.1" -> [net |-> "10.0.0", host |-> "1"]
      [] text = "10.0.0.2" -> [net |-> "10.0.0", host |-> "2"]
      [] text = "203.0.113.5" -> [net |-> "203.0.113", host |-> "5"]
      [] text = "198.51.100.6" -> [net |-> "198.51.100", host |-> "6"]
      [] OTHER -> NotAnAddress

\* every host of a network
AnyHost == "*"

\* ipaddress.ip_network(text, strict=False): host bits of the text are masked
ip_network(text) ==
    CASE text = "10.0.0.2/24" -> [net |-> "10.0.0", host |-> AnyHost]
      [] text = "203.0.113.0/24" -> [net |-> "203.0.113", host |-> AnyHost]
      [] OTHER -> NotAnAddress

\* entries settings.TRUSTED_PROXIES may hold: a single address, two CIDR
\* ranges, a CIDR text with an impossible prefix and a host name
ProxyEntries == {"10.0.0.1", "10.0.0.2/24", "203.0.113.0/24", "10.0.0.1/33", "proxy.local"}
HasSlash(text) == text \in {"10.0.0.2/24", "203.0.113.0/24", "10.0.0.1/33"}

\* the network one TRUSTED_PROXIES entry stands for
NetworkOf(proxy) ==
    IF HasSlash(proxy)
    THEN ip_network(proxy)
    ELSE LET ip == ip_address(proxy)
         IN IF ip = NotAnAddress THEN NotAnAddress ELSE [net |-> ip.net, host |-> ip.host]

\* `addr in network`
InNetwork(addr, network) ==
    /\ addr.net = network.net
    /\ network.host \in {AnyHost, addr.host}

\* entries that raise ValueError are skipped
ParseTrusted(proxies) == {NetworkOf(p) : p \in proxies} \ {NotAnAddress}

\* the cache is filled by the first call and returned by the later ones
get_trusted_networks(cache, proxies) ==
    IF cache.parsed THEN cache ELSE [parsed |-> TRUE, networks |-> ParseTrusted(proxies)]

TrustsAnyPeer(networks, ip) == TRUE

is_trusted_proxy(networks, ip) ==
    /\ ip_address(ip) # NotAnAddress
    /\ \E network \in networks : InNetwork(ip_address(ip), network)

\* request.client.host, or "unknown" for a request without a client
Peers == {"10.0.0.1", "10.0.0.2", "203.0.113.5", "unknown"}

\* an X-Forwarded-For value is a string of these pieces of text
Comma == ","
Space == " "
HeaderTokens == {"198.51.100.6", "10.0.0.1", "invalid-ip", Comma, Space}

RECURSIVE SeqsUpTo(_)
SeqsUpTo(n) ==
    IF n = 0 THEN {<<>>}
    ELSE LET shorter == SeqsUpTo(n - 1)
         IN shorter \cup {Append(s, t) : s \in {x \in shorter : Len(x) = n - 1},
                                         t \in HeaderTokens}

\* header values of a request; the empty one is also what headers.get
\* returns for a request without the header
Headers == SeqsUpTo(MaxHeader)

\* xff.split(",")[0]
FirstEntry(xff) ==
    LET commas == {i \in 1..Len(xff) : xff[i] = Comma}
    IN IF commas = {} THEN xff
       ELSE SubSeq(xff, 1, (CHOOSE i \in commas : \A j \in commas : i <= j) - 1)

\* str.strip()
RECURSIVE strip(_)
strip(s) ==
    IF s = <<>> THEN s
    ELSE IF Head(s) = Space THEN strip(Tail(s))
    ELSE IF s[Len(s)] = Space THEN strip(SubSeq(s, 1, Len(s) - 1))
    ELSE s

\* the text a string of pieces spells: one piece spells itself, several
\* spell their concatenation, which is none of the address texts
Spelled(s) == IF Len(s) = 1 THEN s[1] ELSE "other"

get_client_ip(peer_ip, xff) ==
    LET asked == TRUSTED_PROXIES # {} /\ ip_address(peer_ip) # NotAnAddress
        cache == get_trusted_networks(trusted_networks, TRUSTED_PROXIES)
        client_ip == Spelled(strip(FirstEntry(xff)))
        result ==
            IF TRUSTED_PROXIES = {} THEN peer_ip
            ELSE IF ~is_trusted_proxy(cache.networks, peer_ip) THEN peer_ip
            ELSE IF xff = <<>> THEN peer_ip
            ELSE IF ip_address(client_ip) # NotAnAddress THEN client_ip
            ELSE peer_ip
    IN /\ ipres = NoIpCall
       /\ trusted_networks' = IF asked THEN cache ELSE trusted_networks
       /\ ipres' = [peer |-> peer_ip, xff |-> xff, result |-> result]
       /\ UNCHANGED <<TRUSTED_PROXIES, ipFrame>>

\* the caller takes the result; the next request may arrive
TakeClientIp ==
    /\ ipres # NoIpCall
    /\ ipres' = NoIpCall
    /\ UNCHANGED <<TRUSTED_PROXIES, trusted_networks, ipFrame>>

NextClientIp ==
    \/ \E peer_ip \in Peers, xff \in Headers : get_client_ip(peer_ip, xff)
    \/ TakeClientIp

\* a process started with any setting of TRUSTED_PROXIES
InitClientIp ==
    /\ InitDelivery
    /\ ~redisConfigured
    /\ notifs = NoRows
    /\ clock = 1
    /\ rres = NoResponse
    /\ bc = NoBroadcasts
    /\ InitMore
    /\ TRUSTED_PROXIES \in SUBSET ProxyEntries

SpecClientIp == InitClientIp /\ [][NextClientIp]_vars

\* ------------------------------------------------------------------------
\* send_to_user called by two tasks at once, beside the connection handlers
\* ------------------------------------------------------------------------

\* both tasks are about to call send_to_user for u1; no connection yet and no
\* bus client configured
InitSend ==
    /\ connections = EmptyDict
    /\ lock = Free
    /\ wsState = [w \in Sockets |-> "connecting"]
    /\ closeCode = [w \in Sockets |-> 0]
    /\ closeReason = [w \in Sockets |-> ""]
    /\ frames = [w \in Sockets |-> <<>>]
    /\ hpc = [w \in Sockets |-> "start"]
    /\ huser = [w \in Sockets |-> ""]
    /\ hreq = [w \in Sockets |-> NoRequest]
    /\ redisTask = NoTask
    /\ redisConfigured = FALSE
    /\ redisUrlValid = FALSE
    /\ tpc = [t \in Tasks |-> "snap"]
    /\ tmsg = [t \in Tasks |-> Dict(JS("u1"), JS("notification"), JObj)]
    /\ tevt = [t \in Tasks |-> IF t = "t1" THEN 1 ELSE 2]
    /\ tsnap = [t \in Tasks |-> {}]
    /\ ttodo = [t \in Tasks |-> {}]
    /\ tcur = [t \in Tasks |-> NoSocket]
    /\ tfailed = [t \in Tasks |-> {}]
    /\ tmalformed = [t \in Tasks |-> FALSE]
    /\ polled = 0
    /\ registered = {}
    /\ ret = NoRet
    /\ pubsub = [t \in Tasks |-> "none"]
    /\ stopEvent = [t \in Tasks |-> FALSE]
    /\ notifs = NoRows
    /\ clock = 1
    /\ rres = NoResponse
    /\ bc = NoBroadcasts
    /\ InitMore
    /\ TRUSTED_PROXIES = {}

\* the steps of one send_to_user call
SendStep(t) ==
    \/ Snapshot(t)
    \/ SendFrame(t)
    \/ CloseFailed(t)
    \/ EvictCS(t)
    \/ HandlerReturn(t)

NextSend ==
    \/ \E w \in Sockets : MayRun(w) /\ HandlerStep(w)
    \/ \E t \in Tasks : MayRun(t) /\ SendStep(t)

SpecSend == InitSend /\ [][NextSend]_vars

\* ========================================================================
\* Properties
\* ========================================================================

\* handles currently registered for a user according to the call history
RegisteredFor(u) == {w \in Sockets : <<u, w>> \in registered}

\* C1: after any sequence of connect and disconnect calls, the count reported
\* for a user is the number of distinct handles registered and not yet
\* unregistered for that user (a second registration of a handle counts once,
\* unregistering an absent handle or an unknown user changes nothing), and it
\* is never negative.
C1_CountIsRegisteredHandles ==
    /\ \A u \in Users :
         /\ get_connection_count(connections, u) = Cardinality(RegisteredFor(u))
         /\ get_connection_count(connections, u) >= 0
    /\ ret.op = "count" => ret.value = Cardinality(RegisteredFor(ret.user))
    /\ (ret.op = "disconnect" /\ ret.before = 0) => ret.value = 0

\* C1 witness: a handle was registered a second time and one handle is counted
C1_Witness_RegisteredTwice ==
    /\ ret.op = "connect"
    /\ ret.before = 1
    /\ ret.value = 1
    /\ get_connection_count(connections, ret.user) = 1

\* C5: no user key of the registry maps to an empty set of handles
C5_NoEmptyEntry ==
    \A u \in DOMAIN connections : connections[u] # {}

\* C5 witness: a user's last handle was removed by the handler's finally clause
\* and the entry is gone while another user is still registered
C5_Witness_LastHandleRemoved ==
    \E w \in Sockets :
        /\ hpc[w] = "done"
        /\ closeCode[w] = 0
        /\ wsState[w] = "closed"
        /\ huser[w] \in Users
        /\ huser[w] \notin DOMAIN connections
        /\ DOMAIN connections # {}

\* positions of a subscriber task inside a send_to_user call
InCall == {"snap", "send", "close", "evict_cs", "ret"}

\* user and event of the call a subscriber task is in
CallUser(t) == HandlerUserId(tmsg[t])
FramesOf(w, e) == {i \in DOMAIN frames[w] : frames[w][i].evt = e}
Delivered(w, t) == FramesOf(w, tevt[t]) # {}

\* C2: when a send_to_user call has completed, every handle whose send failed
\* during the call is closed and is not registered for the user of the call.
C2_FailedHandleEvicted ==
    \A t \in Tasks :
        tpc[t] = "ret" =>
            \A w \in tfailed[t] :
                /\ wsState[w] = "closed"
                /\ w \notin DictGet(connections, CallUser(t))

\* C2 witness: a call completed in which a send failed and the handle was
\* closed with code 1011
C2_Witness_FailedSend ==
    \E t \in Tasks, w \in Sockets :
        /\ tpc[t] = "ret"
        /\ w \in tfailed[t]
        /\ closeCode[w] = 1011

\* C3: a failed send (or a failed close of the failed handle) does not end the
\* call: the task stays inside the call until every handle of the snapshot
\* has had its send attempt, and at the return each handle of the snapshot
\* either failed or received the frame.
C3_FailureDoesNotAbort ==
    \A t \in Tasks :
        /\ tfailed[t] # {} => tpc[t] \in InCall
        /\ tpc[t] = "ret" =>
              /\ ttodo[t] = {}
              /\ \A w \in tsnap[t] : w \in tfailed[t] \/ Delivered(w, t)

\* C3 witness: a call completed in which one handle failed and the handle
\* iterated last, after the failure, received the frame
C3_Witness_SendAfterFailure ==
    \E t \in Tasks :
        /\ tpc[t] = "ret"
        /\ tfailed[t] # {}
        /\ tcur[t] \in tsnap[t] \ tfailed[t]
        /\ Delivered(tcur[t], t)

\* C4: send_to_user for a user without registered handles returns at once,
\* sends no frame, closes nothing and leaves the registry as it is (no entry
\* is created for the user).
C4_SendToAbsentUserIsNoOp ==
    [][\A t \in Tasks :
         /\ (tpc[t] = "snap" /\ tpc'[t] # "snap" /\ DictGet(connections, CallUser(t)) = {}) =>
               /\ tpc'[t] = "ret"
               /\ connections' = connections
               /\ frames' = frames
               /\ wsState' = wsState
         /\ (tpc[t] = "ret" /\ tsnap[t] = {} /\ tpc'[t] # "ret") =>
               /\ tpc'[t] = "loop"
               /\ connections' = connections
               /\ frames' = frames
               /\ wsState' = wsState]_vars

\* C4 witness: a call for a user id never seen by the registry has returned
C4_Witness_UnknownUser ==
    \E t \in Tasks :
        /\ tpc[t] = "ret"
        /\ tsnap[t] = {}
        /\ CallUser(t) = "7"
        /\ CallUser(t) \notin DOMAIN connections
        /\ \A w \in Sockets : ~Delivered(w, t)

C7_LockNotHeldAcrossSend ==
    /\ \A t \in Tasks : tpc[t] \in {"send", "close", "evict_cs", "ret"} => lock = Free
    /\ \A w \in Sockets :
          hpc[w] \in {"accept", "connect_cs", "send_connected", "recv", "fin_cs"} => lock = Free

\* C7 witness: a failed handle is being closed while a connect is waiting for
\* the lock
C7_Witness_ConnectDuringClose ==
    \E t \in Tasks, w \in Sockets :
        /\ tpc[t] = "close"
        /\ hpc[w] = "connect_cs"
        /\ lock = Free

\* subscriber tasks that were started and are not done
ActiveTasks == {t \in Tasks : tpc[t] \notin {"unborn", "done"}}

\* C8: at most one subscriber task is active at any time, and it is the one
\* _redis_task refers to.
C8_AtMostOneSubscriber ==
    /\ Cardinality(ActiveTasks) <= 1
    /\ \A t \in ActiveTasks : redisTask = t

\* C8 witness: two connections have passed the lazy-start guard while the
\* first task is still running, and no second task was started
C8_Witness_SecondEnsureNoOp ==
    \E w1, w2 \in Sockets :
        /\ w1 # w2
        /\ hpc[w1] \in {"send_connected", "recv"}
        /\ hpc[w2] \in {"send_connected", "recv"}
        /\ Cardinality(ActiveTasks) = 1
        /\ \A t \in Tasks : tpc[t] # "done"

\* a bus message that is undecodable, not JSON, not an object or has no user_id
Malformed(raw) ==
    \/ raw.kind \in {"badutf8", "notjson", "jsonlist"}
    \/ raw.kind = "dict" /\ raw.user_id.k = "absent"

\* a bus message with a string user_id, a string message_type and an object
WellFormedEnvelope(raw) ==
    /\ raw.kind = "dict"
    /\ raw.user_id.k = "str" /\ raw.user_id.v # ""
    /\ raw.message_type.k = "str" /\ raw.message_type.v # ""
    /\ raw.data.k = "dict"

\* C9: receiving a malformed bus message sends no frame and leaves the loop at
\* its next poll; a well-formed message received by the same loop is passed to
\* send_to_user; no step inside a send_to_user call (a failed send included)
\* takes the loop to its end.
C9_MalformedMessageDropped ==
    [][\A t \in Tasks :
         /\ (tevt'[t] # tevt[t] /\ Malformed(tmsg'[t])) =>
               /\ tpc'[t] = "loop"
               /\ frames' = frames
               /\ connections' = connections
         /\ (tevt'[t] # tevt[t] /\ WellFormedEnvelope(tmsg'[t])) => tpc'[t] = "snap"
         /\ tpc[t] \in InCall => tpc'[t] \in InCall \cup {"loop"}]_vars

\* C9 witness: a loop that dropped a malformed message has later delivered a
\* frame of a valid message
C9_Witness_DeliveryAfterMalformed ==
    \E t \in Tasks, w \in Sockets :
        /\ tmalformed[t]
        /\ tpc[t] = "ret"
        /\ Delivered(w, t)

\* a field that is present and not empty
NonEmpty(x) == x.k # "absent" /\ x.v # ""

\* C10: a message is inside send_to_user, or has a frame on some socket, only
\* if its user_id is non-empty, its message_type is non-empty and its data is
\* an object.
C10_OnlyValidMessagesForwarded ==
    \A t \in Tasks :
        (tpc[t] \in InCall \/ \E w \in Sockets : Delivered(w, t)) =>
            /\ NonEmpty(tmsg[t].user_id)
            /\ NonEmpty(tmsg[t].message_type)
            /\ tmsg[t].data.k = "dict"

\* C10 witness: a message whose data is a list was received while a connection
\* of its user was registered, and nothing was sent
C10_Witness_NonObjectDataDropped ==
    \E t \in Tasks :
        /\ tpc[t] = "loop"
        /\ tmsg[t].kind = "dict"
        /\ tmsg[t].data.k = "list"
        /\ DictGet(connections, tmsg[t].user_id.v) # {}
        /\ \A w \in Sockets : ~Delivered(w, t)

\* ------------------------------------------------------------------------
\* Subscriber loop: end on transport failure, stop, restart
\* ------------------------------------------------------------------------

\* the task went through the finally clause of run (it had subscribed)
EndedAfterSubscribing(t) == tpc[t] = "done" /\ pubsub[t] # "open"

\* the steps by which a subscriber loop ends leave the handlers, the sockets
\* and the registry as they are
LoopEndSparesConnections ==
    \A t \in Tasks :
        (tpc[t] \in {"loop", "finally"} /\ tpc'[t] \in {"finally", "done"} /\ tpc'[t] # tpc[t])
            => UNCHANGED <<hpc, wsState, closeCode, connections>>

\* the lazy-start guard, run while the recorded task has ended, starts a task
EndedTaskDoesNotBlockRestart ==
    \A w \in Sockets :
        (hpc[w] = "ensure" /\ hpc'[w] # "ensure" /\ redisConfigured
             /\ redisTask # NoTask /\ tpc[redisTask] = "done")
            => (redisTask' # redisTask /\ tpc'[redisTask'] = "created")

\* the restart half of C11: holds
RestartAfterLoopEnd == [][LoopEndSparesConnections /\ EndedTaskDoesNotBlockRestart]_vars

\* a second task runs after the first one ended, while a connection is open
RestartedWithOpenConnection ==
    /\ EndedAfterSubscribing("t1")
    /\ tpc["t2"] = "loop"
    /\ \E w \in Sockets : wsState[w] = "open" /\ w \in DictGet(connections, huser[w])

\* C11: when the subscriber loop ends because of a bus transport failure, the
\* subscription is released (the pubsub handle is unsubscribed and closed),
\* the handlers and their open connections are left alone, and a later run of
\* the lazy-start guard starts a new subscriber loop
C11_TransportFailureReleasesAndRestarts ==
    /\ [](\A t \in Tasks : EndedAfterSubscribing(t) => pubsub[t] = "closed")
    /\ [][LoopEndSparesConnections /\ EndedTaskDoesNotBlockRestart]_vars

\* the stop request is set and the run loop has ended through its finally clause
StoppedAndEnded(t) == stopEvent[t] /\ EndedAfterSubscribing(t)

\* the termination half of C12: a stop request leads to the end of run
StopLeadsToEnd == \A t \in Tasks : stopEvent[t] ~> tpc[t] = "done"

\* C12: after stop() the run loop terminates, and on termination it has
\* unsubscribed from the topic and closed the pubsub handle
C12_StoppedLoopUnsubscribesAndCloses ==
    \A t \in Tasks : StoppedAndEnded(t) => pubsub[t] = "closed"

\* ------------------------------------------------------------------------
\* /ws/notifications: admission and cleanup
\* ------------------------------------------------------------------------

\* the five checks of the claim, stated on the request: allowed origin, token
\* present, token verified, token carries a user_id, user exists and is active
AllChecksPass(req) ==
    /\ req.origin \in {"absent", "allowed"}
    /\ (req.cookie # "" \/ req.subprotocol # "")
    /\ AuthToken(req) = "good"
    /\ req.uid # ""
    /\ req.userFound /\ req.userActive

InRegistry(w) == \E u \in Users : w \in DictGet(connections, u)

\* C13: a handle is in the registry only if its request passed every check,
\* and then under the user of its token; a handle whose request failed a check
\* is closed with code 1008 and a reason and is not in the registry
C13_RegisteredOnlyAfterAllChecks ==
    /\ \A w \in Sockets :
         (hpc[w] # "start" /\ ~AllChecksPass(hreq[w]))
            => /\ wsState[w] = "closed"
               /\ closeCode[w] = 1008
               /\ closeReason[w] # ""
               /\ ~InRegistry(w)
    /\ \A w \in Sockets, u \in Users :
         w \in DictGet(connections, u)
            => hpc[w] # "start" /\ AllChecksPass(hreq[w]) /\ hreq[w].uid = u

\* one handle was rejected for a disabled user while the other is registered
C13_Witness_RejectedBesideRegistered ==
    /\ hpc["w1"] = "done" /\ closeReason["w1"] = "User disabled" /\ closeCode["w1"] = 1008
    /\ "w2" \in DictGet(connections, "u1")

\* C14: once the handler of a connection has finished, whichever way it ended,
\* its handle is not in the registry
C14_UnregisteredBeforeHandlerEnds ==
    \A w \in Sockets : hpc[w] = "done" => ~InRegistry(w) /\ <<huser[w], w>> \notin registered

\* both handlers were registered, received a notification and have finished:
\* one because the client disconnected, one with its socket still open (an
\* error or a cancellation)
C14_Witness_TwoWaysOut ==
    /\ hpc["w1"] = "done" /\ frames["w1"] # <<>> /\ wsState["w1"] = "closed" /\ closeCode["w1"] = 0
    /\ hpc["w2"] = "done" /\ frames["w2"] # <<>> /\ wsState["w2"] = "open"

\* ------------------------------------------------------------------------
\* Read state
\* ------------------------------------------------------------------------

\* the step is a call of a read-state endpoint
ReadCall == clock' = clock /\ <<notifs, rres>>' # <<notifs, rres>>

\* rows whose read_at the step changes
Changed == {id \in DOMAIN notifs : notifs'[id].read_at # notifs[id].read_at}

\* C15: read_at changes only from null to a value and never again, whatever
\* order mark_read, mark_all_read and mark_batch_read are applied in; marking
\* reports as updated exactly the rows it changed, so re-marking rows that are
\* already read changes nothing and reports 0
C15_ReadAtSetOnce ==
    [][/\ DOMAIN notifs' = DOMAIN notifs
       /\ \A id \in DOMAIN notifs :
            /\ notifs[id].read_at # Null => notifs'[id].read_at = notifs[id].read_at
            /\ notifs'[id].read_at # notifs[id].read_at => notifs'[id].read_at # Null
       /\ ReadCall => rres'.updated = Cardinality(Changed)
       /\ (ReadCall /\ rres'.status = 200 /\ rres'.op = "mark_read")
             => rres'.read_at = notifs'[CHOOSE id \in rres'.ids : TRUE].read_at
      ]_vars

\* a batch named a notification of its caller that was read at an earlier
\* time, and reported nothing updated
C15_Witness_RemarkedLater ==
    /\ rres.op = "mark_batch_read" /\ rres.updated = 0
    /\ \E id \in rres.ids \cap DOMAIN notifs :
         /\ notifs[id].user_id = rres.user
         /\ notifs[id].read_at # Null /\ notifs[id].read_at < rres.read_at

\* C16: a read-state call of user U leaves the notifications of every other
\* user as they are, even when their ids are passed, and changes no category,
\* title, body or payload; mark_read of a notification U does not own answers
\* not-found and changes nothing
C16_OnlyOwnReadAtChanges ==
    [][ReadCall =>
         /\ \A id \in DOMAIN notifs :
              /\ notifs[id].user_id # rres'.user => notifs'[id] = notifs[id]
              /\ notifs'[id] = [notifs[id] EXCEPT !.read_at = notifs'[id].read_at]
         /\ rres'.op = "mark_read" =>
              \A id \in rres'.ids :
                  (id \notin DOMAIN notifs \/ notifs[id].user_id # rres'.user)
                     <=> (rres'.status = 404)
         /\ rres'.status = 404 => notifs' = notifs
      ]_vars

\* a batch of a user named an unread notification of the other user beside
\* one of its own, and updated only its own
C16_Witness_ForeignIdInBatch ==
    /\ rres.op = "mark_batch_read" /\ rres.updated = 1
    /\ \E id \in rres.ids \cap DOMAIN notifs :
         notifs[id].user_id # rres.user /\ notifs[id].read_at = Null

\* mark_read of the other user's notification was answered not-found
C16_NotFoundForForeignId ==
    /\ rres.op = "mark_read" /\ rres.status = 404
    /\ \E id \in rres.ids \cap DOMAIN notifs : notifs[id].user_id # rres.user

\* ------------------------------------------------------------------------
\* Broadcasts
\* ------------------------------------------------------------------------

\* C17: in every reachable state of every broadcast, processed <= total_targets
\* and sent_count + failed_count <= processed
C17_BroadcastCounters ==
    \A b \in DOMAIN bc :
        /\ bc[b].processed <= bc[b].total_targets
        /\ bc[b].sent_count + bc[b].failed_count <= bc[b].processed

\* a fan-out under way: some targets sent, some failed, some still to process
C17_Witness_MidFanout ==
    \E b \in DOMAIN bc :
        /\ bc[b].status = "SENDING"
        /\ bc[b].sent_count >= 1 /\ bc[b].failed_count >= 1
        /\ bc[b].processed < bc[b].total_targets

TableStep(from, to) ==
    \/ from = "DRAFT" /\ to = "SENDING"
    \/ from = "SENDING" /\ to \in Terminal
    \/ from # "DELETED" /\ to = "DELETED"

\* the status of an existing broadcast changes by a step of `table` only, and
\* a new broadcast starts in DRAFT
FollowsTable(Allowed(_, _)) ==
    /\ \A b \in DOMAIN bc :
         b \in DOMAIN bc' /\ (bc'[b].status # bc[b].status
                                 => Allowed(bc[b].status, bc'[b].status))
    /\ \A b \in DOMAIN bc' : bc'[b].status \in Statuses
    /\ \A b \in DOMAIN bc' \ DOMAIN bc : bc'[b].status = "DRAFT"

TableStepOrSetupFailure(from, to) ==
    TableStep(from, to) \/ (from = "DRAFT" /\ to = "FAILED")

RuleOfClaim(row) ==
    /\ row.failed_count = 0 => row.status = "SENT"
    /\ (0 < row.failed_count /\ row.failed_count < row.total_targets)
          => row.status = "PARTIAL_FAILED"
    /\ row.failed_count = row.total_targets => row.status = "FAILED"

\* a failing target is counted and leaves the fan-out going
FailureIsCounted ==
    \A b \in DOMAIN bc :
        bc'[b].failed_count # bc[b].failed_count
            => /\ bc'[b].failed_count = bc[b].failed_count + 1
               /\ bc'[b].processed = bc[b].processed + 1
               /\ bc[b].status = "SENDING" /\ bc'[b].status = "SENDING"
               /\ bc'[b].total_targets = bc[b].total_targets

\* C20 as stated: once all targets have been processed and the fan-out has
\* completed (no abort, no setup failure), the status is SENT if failed_count == 0, PARTIAL_FAILED if
\* 0 < failed_count < total_targets, FAILED if failed_count == total_targets;
\* a failing target is counted and does not end the fan-out
C20_StatusByFailedCount ==
    /\ [](\A b \in DOMAIN bc :
            (bc[b].status \in Terminal /\ AllProcessed(bc[b]) /\ bc[b].last_error = "")
                => RuleOfClaim(bc[b]))
    /\ [][FailureIsCounted]_vars

\* C20, amended: the same for broadcasts with at least one target
C20_StatusByFailedCountWithTargets ==
    /\ [](\A b \in DOMAIN bc :
            (bc[b].status \in Terminal /\ AllProcessed(bc[b]) /\ bc[b].last_error = ""
                /\ bc[b].total_targets >= 1)
                => RuleOfClaim(bc[b]))
    /\ [][FailureIsCounted]_vars

\* scenario A with one failure first: three targets, the first failed, the
\* other two were still processed and sent, the status is PARTIAL_FAILED
C20_Witness_PartialOfThree ==
    \E b \in DOMAIN bc :
        /\ bc[b].total_targets = 3 /\ bc[b].processed = 3
        /\ bc[b].failed_count = 1 /\ bc[b].sent_count = 2
        /\ bc[b].status = "PARTIAL_FAILED"
\* C21: at most one broadcast is stored per idempotency key, and a create
\* call whose key is already stored returns that broadcast and changes no
\* broadcast row (body, status, counts) and no per-user notification row
OnePerKey ==
    \A x, y \in DOMAIN bc : bc[x].idempotency_key = bc[y].idempotency_key => x = y

CallReturns(c) == cres[c] = NoBroadcast /\ cres'[c] # NoBroadcast

ReturnsExistingUnchanged ==
    \A c \in Clients :
        CallReturns(c) =>
            /\ cres'[c] \in DOMAIN bc'
            /\ bc'[cres'[c]].idempotency_key = creq[c].key
            /\ ~KeyFree(bc, creq[c].key) =>
                  /\ cres'[c] = Existing(bc, creq[c].key)
                  /\ bc' = bc
                  /\ brows' = brows

C21_OneBroadcastPerKey == []OnePerKey /\ [][ReturnsExistingUnchanged]_vars

\* a caller that lost the race: its insert met the key stored by another
\* caller with a different body, whose campaign has already sent
C21_Witness_SecondCallGetsFirst ==
    \E c \in Clients :
        /\ creq[c].pc = "done"
        /\ cres[c] \in DOMAIN bc
        /\ bc[cres[c]].body # creq[c].body
        /\ bc[cres[c]].sent_count = 1
        /\ \E d \in Clients \ {c} : cres[d] = cres[c] /\ creq[d].pc = "done"

\* C22: with several workers counting targets of one broadcast in any
\* interleaving no update is lost: the broadcast invariant holds in every
\* state, and once every target has completed processed = total_targets and
\* sent_count + failed_count = processed
AllTargetsCompleted(b) ==
    bc[b].status # "DRAFT" /\ finished[b] = bc[b].total_targets

C22_NoLostCounterUpdate ==
    \A b \in DOMAIN bc :
        /\ bc[b].processed <= bc[b].total_targets
        /\ bc[b].sent_count + bc[b].failed_count <= bc[b].processed
        /\ AllTargetsCompleted(b) =>
              /\ bc[b].processed = bc[b].total_targets
              /\ bc[b].sent_count + bc[b].failed_count = bc[b].processed

\* a worker is still busy with a target of a broadcast whose row another
\* worker has updated (with a failure) since this worker read it
C22_Witness_CountedAfterStaleRead ==
    \E b \in DOMAIN bc, w \in Workers :
        /\ bc[b].total_targets = 2
        /\ wk[w].pc = "busy" /\ wk[w].b = b
        /\ wk[w].seen.processed < bc[b].processed
        /\ bc[b].failed_count = 1

\* C23: once a broadcast has left DRAFT its total_targets never changes, and
\* once it is DELETED its processed, sent_count and failed_count never
\* change and none of its per-user Notification rows is removed
RowsOf(rows, b) == {r \in rows : r[1] = b}

FrozenStep(b) ==
    /\ b \in DOMAIN bc'
    /\ bc[b].status # "DRAFT" => bc'[b].total_targets = bc[b].total_targets
    /\ bc[b].status = "DELETED" =>
          /\ bc'[b].processed = bc[b].processed
          /\ bc'[b].sent_count = bc[b].sent_count
          /\ bc'[b].failed_count = bc[b].failed_count
    /\ bc'[b].status = "DELETED" => RowsOf(brows, b) \subseteq brows'

WrittenTogether ==
    \A n \in OutboxIds :
        n \in onotifs' \ onotifs <=> n \in DOMAIN outbox' \ DOMAIN outbox

RemovedOnlyAcked ==
    \A n \in DOMAIN outbox \ DOMAIN outbox' : outbox[n].status = "ACKED"

WasDispatched(e) == published[e] > outbox[e].attempt

AttemptWithinBudget ==
    \A e \in DOMAIN outbox :
        /\ outbox[e].attempt <= MaxAttempts
        /\ outbox[e].status = "PENDING" => outbox[e].attempt < MaxAttempts
        /\ outbox[e].status = "FAILED" =>
              outbox[e].attempt >= MaxAttempts /\ outbox[e].last_error # ""

PublishStep(e) == published'[e] # published[e]

PublishCounted ==
    \A e \in OutboxIds :
        PublishStep(e) =>
            /\ e \in DOMAIN outbox /\ e \in DOMAIN outbox'
            /\ outbox[e].status = "PENDING"
            /\ published'[e] = published[e] + 1
            /\ IF outbox'[e].status = "DISPATCHED"
                 THEN outbox'[e].attempt = outbox[e].attempt
                 ELSE outbox'[e].attempt = outbox[e].attempt + 1

AttemptOnlyByPublish ==
    \A e \in DOMAIN outbox \cap DOMAIN outbox' :
        outbox'[e].attempt # outbox[e].attempt => PublishStep(e)

C26_AttemptsCountedUpToMax ==
    []AttemptWithinBudget /\ [][PublishCounted /\ AttemptOnlyByPublish]_vars

\* the older entry is FAILED after its last attempt and the Processor, which
\* has crashed and restarted since, is publishing the younger one
C26_Witness_FailedIsPassedOver ==
    /\ 1 \in DOMAIN outbox /\ outbox[1].status = "FAILED"
    /\ outbox[1].attempt = MaxAttempts
    /\ crashes >= 1
    /\ proc = [pc |-> "selected", e |-> 2]
    /\ outbox[2].attempt = 1

\* C27: when the process crashes while an entry is DISPATCHED and not yet
\* ACKED, the entry is processed again after the restart (it does not stay
\* DISPATCHED forever), and no Processor step changes the Notification rows
Stranded(e) ==
    e \in DOMAIN outbox /\ outbox[e].status = "DISPATCHED" /\ proc.pc = "down"

LeftDispatched(e) ==
    e \notin DOMAIN outbox \/ outbox[e].status # "DISPATCHED"

ProcessingKeepsNotifications == [][proc' # proc => onotifs' = onotifs]_vars

C27_DispatchedIsReprocessed ==
    /\ \A e \in OutboxIds : Stranded(e) ~> LeftDispatched(e)
    /\ ProcessingKeepsNotifications

\* after the restart the Processor is idle with nothing PENDING, and the
\* entry it had published before the crash is still DISPATCHED
C27_Witness_IdleBesideDispatched ==
    /\ crashes >= 1
    /\ proc = ProcIdle
    /\ PendingEntries = {}
    /\ \E e \in DOMAIN outbox : outbox[e].status = "DISPATCHED"

\* C28: no entry is deleted while PENDING or DISPATCHED, and with a fair
\* Processor and any number of crashes and restarts every committed entry
\* eventually is ACKED or FAILED
NoDeleteBeforeTerminal ==
    [][\A e \in DOMAIN outbox \ DOMAIN outbox' :
          outbox[e].status \notin {"PENDING", "DISPATCHED"}]_vars

Settled(e) ==
    e \notin DOMAIN outbox \/ outbox[e].status \in {"ACKED", "FAILED"}

C28_EveryEntryIsSettled ==
    /\ NoDeleteBeforeTerminal
    /\ \A e \in OutboxIds : (e \in DOMAIN outbox) ~> Settled(e)

\* the entries that are never settled are those a crash met in DISPATCHED
OnlyStrandedEntriesAreLost ==
    \A e \in OutboxIds :
        (e \in DOMAIN outbox) ~>
            (Settled(e) \/ (outbox[e].status = "DISPATCHED" /\ proc.pc # "dispatched"))

\* both entries committed, the process has crashed as often as it can, one
\* entry is FAILED and the other one is left DISPATCHED
C28_Witness_OneFailedOneLeftBehind ==
    /\ crashes = MaxCrashes
    /\ proc = ProcIdle
    /\ DOMAIN outbox = OutboxIds
    /\ \E e, o \in OutboxIds :
          outbox[e].status = "FAILED" /\ outbox[o].status = "DISPATCHED"

\* the identifier is locked out at the present time
LockedOut(id) == id \in DOMAIN records /\ records[id].locked_until > time

\* C29: while the lockout that max_attempts failures have started has not
\* expired, check_rate_limit answers not-allowed with a retry_after that is
\* not None and greater than 0
C29_LockedOutWithPositiveRetryAfter ==
    \A id \in Identifiers :
        (lres.op = "check" /\ lres.id = id /\ LockedOut(id)) =>
            /\ ~lres.allowed
            /\ lres.retry_after # NoRetry
            /\ lres.retry_after > 0

\* the failure that brings the count of the window to max_attempts starts a
\* lockout, and the next check is refused
LockedAtMaxAttempts ==
    [][\A id \in Identifiers :
          (/\ lres'.op = "failure" /\ lres'.id = id /\ lres' # lres
           /\ Lookup(records, id, AttemptRecord).attempts + 1 >= max_attempts)
          => records'[id].locked_until > time]_vars

RefusedWhileLockedOut ==
    \A id \in Identifiers :
        (lres.op = "check" /\ lres.id = id /\ LockedOut(id)) =>
            ~lres.allowed /\ lres.retry_after >= 0

\* a check made in the last half second of a lockout: refused, and the
\* caller is told to retry after 0 seconds
C29_Witness_RefusedWithZeroRetryAfter ==
    /\ lres = [op |-> "check", id |-> "a", allowed |-> FALSE, retry_after |-> 0]
    /\ LockedOut("a")
    /\ records["a"].locked_until = time + 1

\* a lockout of `id` starts in this step
LockoutStarts(id) ==
    Lookup(lockout_counts', id, 0) = Lookup(lockout_counts, id, 0) + 1

\* the seconds the lockout that starts in this step lasts
StartedDuration(id) == (records'[id].locked_until - time) \div TicksPerSecond

\* the documented durations: lockout_seconds times 1, 2, 4, ..., capped
Documented(count) == Min(lockout_seconds * (2 ^ (count - 1)), max_lockout_seconds)

\* C30: the n-th lockout of an identifier lasts lockout_seconds * 2^(n-1)
\* (1st: lockout_seconds, 2nd: twice, 3rd: four times that), and no lockout
\* lasts longer than max_lockout_seconds
C30_LockoutsDouble ==
    [][\A id \in Identifiers :
          LockoutStarts(id) =>
              /\ StartedDuration(id) = Documented(lockout_counts'[id])
              /\ StartedDuration(id) <= max_lockout_seconds]_vars

\* what does hold: the first two lockouts are as documented, the duration
\* grows by lockout_seconds per lockout, and no lockout exceeds the cap
LockoutsGrowUpToCap ==
    [][\A id \in Identifiers :
          LockoutStarts(id) =>
              /\ lockout_counts'[id] <= 2 =>
                    StartedDuration(id) = Documented(lockout_counts'[id])
              /\ StartedDuration(id) = LockoutDuration(lockout_counts'[id])
              /\ StartedDuration(id) <= max_lockout_seconds]_vars

\* the third lockout of an identifier has just started and lasts three
\* times lockout_seconds
C30_Witness_ThirdLockout ==
    /\ "a" \in DOMAIN lockout_counts /\ lockout_counts["a"] = 3
    /\ lres = [op |-> "failure", id |-> "a", allowed |-> TRUE, retry_after |-> NoRetry]
    /\ records["a"].last_attempt_at = time
    /\ records["a"].locked_until = time + 3 * lockout_seconds * TicksPerSecond

\* the call made in this step
Called(op, id) == lres'.op = op /\ lres'.id = id /\ <<records, lockout_counts, lres>>' # <<records, lockout_counts, lres>>

Attempts(recs, id) == Lookup(recs, id, AttemptRecord).attempts

\* C31: after a success is recorded for an identifier a check allows it, and
\* the failures recorded before the success no longer count: the count is 0
\* after the success, only a recorded failure raises it, by one, and a
\* lockout starts only when it reaches max_attempts
AllowedAfterSuccess(id) ==
    (lres.op = "success" /\ lres.id = id /\ lres'.op = "check" /\ lres'.id = id)
        => lres'.allowed /\ lres'.retry_after = NoRetry

CountsFromSuccess(id) ==
    /\ (lres'.op = "success" /\ lres'.id = id) =>
          Attempts(records', id) = 0 /\ ~LockedOut(id)'
    /\ Attempts(records', id) > Attempts(records, id) =>
          /\ Called("failure", id)
          /\ Attempts(records', id) = Attempts(records, id) + 1
    /\ LockoutStarts(id) =>
          /\ Called("failure", id)
          /\ Attempts(records, id) + 1 >= max_attempts
    /\ (lres.op = "success" /\ lres.id = id /\ max_attempts > 1) => ~LockoutStarts(id)

C31_SuccessClearsFailures ==
    [][\A id \in Identifiers : AllowedAfterSuccess(id) /\ CountsFromSuccess(id)]_vars

\* an identifier that was locked out, then logged in, then failed once: the
\* check allows it and one failure is counted
C31_Witness_AllowedWithOneNewFailure ==
    /\ "a" \in DOMAIN lockout_counts
    /\ lres = [op |-> "check", id |-> "a", allowed |-> TRUE, retry_after |-> NoRetry]
    /\ records["a"].locked_until = 0
    /\ records["a"].attempts = 1
    /\ records["a"].last_attempt_at = time

\* the limiter holds nothing about the identifier, as before its first call
NeverSeen(id) == id \notin DOMAIN records /\ id \notin DOMAIN lockout_counts

\* what the limiter holds about an identifier
Held(recs, counts, id) ==
    <<id \in DOMAIN recs, Lookup(recs, id, AttemptRecord),
      id \in DOMAIN counts, Lookup(counts, id, 0)>>

\* C32: after reset(id), from any state, the limiter holds for id what it
\* holds for a never-seen identifier, so the next check allows it, its
\* attempt count is 0 and its next lockout has the base duration; what it
\* holds about the other identifiers is unchanged by the reset
AsNeverSeenAfterReset ==
    \A id \in Identifiers :
        (lres.op = "reset" /\ lres.id = id) =>
            NeverSeen(id) /\ Attempts(records, id) = 0 /\ ~LockedOut(id)

ResetStep(id) ==
    /\ (lres'.op = "reset" /\ lres'.id = id) =>
          \A o \in Identifiers \ {id} :
              Held(records', lockout_counts', o) = Held(records, lockout_counts, o)
    /\ (lres.op = "reset" /\ lres.id = id /\ lres'.op = "check" /\ lres'.id = id) =>
          lres'.allowed /\ lres'.retry_after = NoRetry
    /\ (NeverSeen(id) \/ id \notin DOMAIN lockout_counts) /\ LockoutStarts(id) =>
          /\ StartedDuration(id) = lockout_seconds
          /\ Attempts(records, id) + 1 >= max_attempts

C32_ResetForgetsIdentifier ==
    []AsNeverSeenAfterReset /\ [][\A id \in Identifiers : ResetStep(id)]_vars

\* reset has just been called for one identifier while the other one is in
\* its second lockout: the first is as never seen, the second keeps its
\* record and its lockout count
C32_Witness_ResetBesideLockedOut ==
    /\ lres = [op |-> "reset", id |-> "a", allowed |-> TRUE, retry_after |-> NoRetry]
    /\ NeverSeen("a")
    /\ LockedOut("b")
    /\ lockout_counts = [b |-> 2]
    /\ time > 1

\* C33: a lockout starts only when max_attempts failures were recorded
\* within window_seconds of each other, whatever the sequence of calls
\* (with max_attempts = 2: the failure that starts the lockout comes at most
\* window_seconds after the failure counted before it)
C33_LockoutOnlyWithinWindow ==
    [][\A id \in Identifiers :
          LockoutStarts(id) =>
              /\ Attempts(records, id) = max_attempts - 1
              /\ time - records[id].last_attempt_at <= window_seconds * TicksPerSecond]_vars

\* what does hold: an allowed check leaves no count whose window has ended
CheckClearsEndedWindow ==
    [][\A id \in Identifiers :
          (Called("check", id) /\ lres'.allowed /\ Attempts(records', id) > 0) =>
              time <= records'[id].first_attempt_at + window_seconds * TicksPerSecond]_vars

\* a failure is still counted although its window has ended: no check has
\* been made since
C33_Witness_CountOutlivesWindow ==
    /\ "a" \in DOMAIN records
    /\ records["a"].attempts = 1
    /\ records["a"].first_attempt_at = 1
    /\ time > 1 + window_seconds * TicksPerSecond
    /\ lres.op = "failure"

\* texts that are IP addresses
AddressTexts == {"10.0.0.1", "10.0.0.2", "203.0.113.5", "198.51.100.6"}

\* the peer is an address inside a network that an entry of the settings names
ConfiguredTrusted(peer) ==
    /\ peer \in AddressTexts
    /\ \E proxy \in TRUSTED_PROXIES :
          /\ NetworkOf(proxy) # NotAnAddress
          /\ InNetwork(ip_address(peer), NetworkOf(proxy))

\* the header starts with the text lit, alone between optional spaces, up to
\* the first comma or the end of the header
LeftmostIs(xff, lit) ==
    \E i \in 1..Len(xff), k \in 1..Len(xff) :
        /\ i <= k
        /\ xff[i] = lit
        /\ \A j \in 1..(i - 1) : xff[j] = Space
        /\ \A j \in (i + 1)..k : xff[j] = Space
        /\ k = Len(xff) \/ xff[k + 1] = Comma

\* the one case where the header may be used
BehindTrustedProxy(call) ==
    /\ ConfiguredTrusted(call.peer)
    /\ \E lit \in AddressTexts : LeftmostIs(call.xff, lit)

\* C34: get_client_ip returns a value taken from X-Forwarded-For only when the
\* peer is a configured trusted proxy and the leftmost entry of the header is
\* a valid IP, and then it is that entry; in every other case (no trusted
\* proxies, untrusted peer, empty or invalid header) the result is the peer
\* address, whatever the header holds
C34_HeaderUsedOnlyBehindTrustedProxy ==
    ipres # NoIpCall =>
        IF BehindTrustedProxy(ipres)
        THEN LeftmostIs(ipres.xff, ipres.result)
        ELSE ipres.result = ipres.peer

\* a peer inside a trusted CIDR range forwards " 198.51.100.6," and the
\* result is the forwarded address
C34_Witness_ForwardedByRangeProxy ==
    /\ TRUSTED_PROXIES = {"10.0.0.2/24", "proxy.local"}
    /\ ipres.peer = "10.0.0.1"
    /\ ipres.xff = <<Space, "198.51.100.6", Comma>>
    /\ ipres.result = "198.51.100.6"
    /\ trusted_networks.parsed

\* the handle has been registered by its handler, under the user of its token
WasRegisteredUnder(u, w) ==
    /\ huser[w] = u
    /\ hpc[w] \notin {"start", "accept", "connect_cs"}

\* a step that sends a frame to w, other than the `connected` frame of its own
\* handler, is an iteration of a send_to_user call for a user w was registered
\* under, and the frame is the one of that call
SentByCallForOwner(w) ==
    (frames'[w] # frames[w] /\ frames'[w] # Append(frames[w], ConnectedFrame)) =>
        \E t \in Tasks :
            /\ tpc[t] = "send"
            /\ w \in tsnap[t]
            /\ WasRegisteredUnder(HandlerUserId(tmsg[t]), w)
            /\ frames'[w] = Append(frames[w], Envelope(HandlerMessageType(tmsg[t]), tevt[t]))

\* C35: send_to_user(U, ...) sends frames only to handles that were registered
\* under U; a socket registered only under another user never receives a
\* frame addressed to U
C35_FramesOnlyToHandlesOfTheUser == [][\A w \in Sockets : SentByCallForOwner(w)]_vars

\* a call for u1 has sent its frame to the handle of u1 and returns, while a
\* handle of u2 is registered, open and has received nothing
C35_Witness_OtherUserConnected ==
    \E t \in Tasks, w \in Sockets, v \in Sockets :
        /\ tpc[t] = "ret"
        /\ HandlerUserId(tmsg[t]) = "u1"
        /\ tsnap[t] = {w}
        /\ \E i \in DOMAIN frames[w] : frames[w][i].type = "notification"
        /\ huser[v] = "u2"
        /\ <<"u2", v>> \in registered
        /\ hpc[v] = "recv"
        /\ wsState[v] = "open"
        /\ frames[v] = <<ConnectedFrame>>

\* C36: on every accepted connection the `connected` frame is the first frame
\* sent on the socket; no frame delivered through the registry is sent on it
\* before, although the handle is registered before the `connected` frame is sent
C36_ConnectedFrameFirst ==
    \A w \in Sockets :
        /\ frames[w] # <<>> => frames[w][1] = ConnectedFrame
        /\ \A i \in DOMAIN frames[w] : i > 1 => frames[w][i] # ConnectedFrame

\* one handle of u1 has received its `connected` frame and then a notification;
\* the other is registered and has not been sent its `connected` frame yet,
\* while the subscriber holds the next message for u1
C36_Witness_RegisteredBeforeConnected ==
    \E t \in Tasks, w \in Sockets, v \in Sockets :
        /\ Len(frames[w]) = 2
        /\ frames[w][2].type = "notification"
        /\ hpc[v] = "send_connected"
        /\ <<huser[v], v>> \in registered
        /\ frames[v] = <<>>
        /\ tpc[t] = "snap"
        /\ HandlerUserId(tmsg[t]) = huser[v]

\* the handler of w goes on from the start of the subscription
LeavesEnsure(w) == hpc[w] = "ensure" /\ hpc'[w] # "ensure"

\* the handle stays registered and the handler goes on to send `connected`
StillServed(w) ==
    /\ hpc'[w] = "send_connected"
    /\ <<huser[w], w>> \in registered'
    /\ w \in DictGet(connections', huser[w])

\* C37: starting the bus subscription is best-effort: whether the bus client
\* is not configured, cannot be created or the subscriber fails to start, the
\* connection stays registered and is sent its `connected` frame
C37_SubscriptionStartIsBestEffort ==
    [][\A w \in Sockets : LeavesEnsure(w) => StillServed(w)]_vars

\* the same for the two cases the code handles: no client is configured, or
\* the client is created (whatever happens to the subscriber afterwards)
BestEffortUnlessCreateRaises ==
    [][\A w \in Sockets :
          (LeavesEnsure(w) /\ (redisUrlValid \/ ~redisConfigured)) => StillServed(w)]_vars

\* with a REDIS_URL that from_url rejects, the handler of a connection that
\* passed every check has ended: the handle is open, unregistered and was
\* never sent a frame
C37_Witness_ConnectionLostToBadUrl ==
    \E w \in Sockets :
        /\ redisConfigured /\ ~redisUrlValid
        /\ hpc[w] = "done"
        /\ RejectReason(hreq[w]) = ""
        /\ wsState[w] = "open"
        /\ frames[w] = <<>>
        /\ <<huser[w], w>> \notin registered

\* a send_to_user call made for a bus message is in progress in task t
CallInProgress(t) == tpc[t] \in InCall

\* a message is polled only when the handling of every earlier one is over
PolledAfterHandling == polled' # polled => \A t \in Tasks : ~CallInProgress(t)

\* on every handle the frames of bus messages are in the order of receipt
InReceiptOrder ==
    \A w \in Sockets : \A i \in DOMAIN frames[w], j \in DOMAIN frames[w] :
        (i < j /\ frames[w][i] # ConnectedFrame /\ frames[w][j] # ConnectedFrame)
            => frames[w][i].evt < frames[w][j].evt

\* C38: bus messages are delivered in receipt order: the subscriber finishes
\* handling m1 (every send attempt for its user) before it polls for the next
\* message, so a connection that receives frames for m1 and for a later m2
\* receives the frame of m1 first
C38_DeliveredInReceiptOrder == []InReceiptOrder /\ [][PolledAfterHandling]_vars

\* a handle has received the frames of the first and of the second message
C38_Witness_TwoMessagesOneHandle ==
    \E w \in Sockets :
        /\ Len(frames[w]) = 3
        /\ frames[w][2] = [type |-> "notification", evt |-> 1]
        /\ frames[w][3] = [type |-> "notification", evt |-> 2]

\* the snapshot of a call is the set of handles registered for its user at
\* that moment
SnapshotIsRegistered(t) ==
    (tpc[t] = "snap" /\ tpc'[t] # "snap") => tsnap'[t] = RegisteredFor(CallUser(t))

\* one iteration attempts a handle of the snapshot that no earlier iteration
\* of the call attempted, and the snapshot stays what it was
AttemptsWithinSnapshot(t) ==
    (tpc[t] = "send" /\ <<tpc[t], tcur[t], ttodo[t]>>' # <<tpc[t], tcur[t], ttodo[t]>>) =>
        /\ tcur'[t] \in ttodo[t]
        /\ ttodo[t] \subseteq tsnap[t]
        /\ ttodo'[t] = ttodo[t] \ {tcur'[t]}
        /\ tsnap'[t] = tsnap[t]

\* a frame of the message of task t reaches only the handle the task is
\* attempting in that step
FrameOnlyToAttempted(w) ==
    (frames'[w] # frames[w] /\ frames'[w] # Append(frames[w], ConnectedFrame)) =>
        \E t \in Tasks :
            /\ tpc[t] = "send"
            /\ tcur'[t] = w
            /\ w \in ttodo[t]
            /\ frames'[w] = Append(frames[w], Envelope(HandlerMessageType(tmsg[t]), tevt[t]))

\* the call ends only by returning, after the last handle of its snapshot
CallNeverFails(t) ==
    (tpc[t] \in InCall /\ tpc'[t] \notin InCall) => (tpc[t] = "ret" /\ ttodo[t] = {})

\* when the call returns every handle of its snapshot has had one attempt:
\* its send failed, or it holds exactly one frame of the message
AllAttemptedOnce(t) ==
    tpc[t] = "ret" =>
        \A w \in Sockets :
            /\ w \in tsnap[t] \ tfailed[t] => Cardinality(FramesOf(w, tevt[t])) = 1
            /\ w \notin tsnap[t] \ tfailed[t] => FramesOf(w, tevt[t]) = {}

\* the registry holds exactly the handles connected and not disconnected,
\* has no empty entry, and holds no handle whose handler has finished
RegistryConsistent ==
    /\ \A u \in Users : DictGet(connections, u) = RegisteredFor(u)
    /\ \A u \in DOMAIN connections : connections[u] # {}
    /\ \A w \in Sockets : hpc[w] = "done" => ~InRegistry(w)

\* C39: one send_to_user call attempts exactly the handles registered for the
\* user when its snapshot was taken, each at most once; connects, disconnects
\* and a second call for the same user interleaved with it never make it
\* fail, never make it send outside its snapshot and leave the registry
\* consistent (a handle removed by its own handler and by the eviction after
\* a failed send is simply absent)
C39_SnapshotIsolatesTheCall ==
    /\ [](RegistryConsistent /\ \A t \in Tasks : AllAttemptedOnce(t))
    /\ [][/\ \A t \in Tasks : /\ SnapshotIsRegistered(t)
                              /\ AttemptsWithinSnapshot(t)
                              /\ CallNeverFails(t)
          /\ \A w \in Sockets : FrameOnlyToAttempted(w)]_vars

\* both calls took the handle w in their snapshots; the send of one failed
\* and it evicted w, the handler of w has finished too, the other call is
\* still running, and a handle connected after the snapshots is registered
C39_Witness_EvictedTwiceBesideNewHandle ==
    \E w \in Sockets, v \in Sockets :
        /\ hpc[w] = "done"
        /\ w \in tfailed["t1"]
        /\ tpc["t1"] = "ret"
        /\ w \in tsnap["t2"]
        /\ tpc["t2"] \in {"send", "close", "evict_cs"}
        /\ v \notin tsnap["t1"] \cup tsnap["t2"]
        /\ <<"u1", v>> \in registered

====
